---- MODULE Spec2Model ----
(***************************************************************************)
(* State-machine model of the translation orchestration engine:           *)
(*   core/models.rs        TokenUsage, LaneType, Model                     *)
(*   core/token_tracker.rs TokenTracker (RwLock<TokenUsage>)               *)
(*   core/config.rs        TranslatorConfig                                *)
(*   core/client.rs        AsyncTranslator                                 *)
(* One action per await-delimited segment of the async code: the points    *)
(* where a task can be suspended are the RwLock / Mutex / Semaphore        *)
(* acquisitions, the wire call and the backoff sleep.                      *)
(***************************************************************************)
EXTENDS Integers, Sequences, FiniteSets, TLC

(* ------------------------------ bounds -------------------------------- *)

\* concurrent translate() callers
NCalls == 3
\* concurrent direct users of the TokenTracker API
NClients == 1
\* callers of the N-concurrent-use_tokens scenario
NQuotaCalls == 3
\* largest config.max_concurrent tried
MaxConcurrent == 2
\* largest config.max_retries tried
MaxRetries == 1
\* longest config.models tried
MaxModels == 2
\* largest daily_limit tried
MaxLimit == 2
\* longest request text (bytes)
MaxTextLen == 4
\* largest usage.total_tokens a response reports, largest tokens argument
MaxTokens == 2
\* the daily_limit of the low-quota scenario
LowLimit == 25
\* longest translate_batch request list
MaxBatch == 2
\* most fields to translate in the "---" block of a Markdown document
MaxFields == 2
\* config.max_retries of the retry-loop scenario
AuditRetries == 3
\* last clock instant; TicksPerDay instants make one UTC day
MaxNow == 2
TicksPerDay == 2

Callers == 1..NCalls
Clients == (NCalls + 1)..(NCalls + NClients)
QuotaCallers == (NCalls + NClients + 1)..(NCalls + NClients + NQuotaCalls)
Tasks == Callers \cup Clients \cup QuotaCallers

(* ------------------------- core/models.rs ----------------------------- *)

LaneType == {"slow", "fast"}

\* Model: rpm and max_concurrent of a model are never read by the core
Model(id, lane, enabled) == [id |-> id, lane |-> lane, enabled |-> enabled]

\* chrono::DateTime::date_naive: the calendar date of an instant
date_naive(t) == t \div TicksPerDay

\* TokenUsage::new
TokenUsage_new(daily_limit, t) ==
    [daily_limit |-> daily_limit, used_today |-> 0, last_reset |-> t]

\* usize::saturating_sub
saturating_sub(a, b) == IF a >= b THEN a - b ELSE 0

\* TokenUsage::remaining
remaining(u) == saturating_sub(u.daily_limit, u.used_today)

\* (a can_use that lets everything through)
can_use_unchecked(u, tokens) == TRUE

\* (a check that needs one token to spare)
can_use_strict(u, tokens) == remaining(u) > tokens

\* TokenUsage::can_use
can_use(u, tokens) == remaining(u) >= tokens

\* (a use_tokens that forgets the addition)
add_tokens_forgotten(u, tokens) == u

\* TokenUsage::use_tokens, the mutation that follows a passed check
add_tokens(u, tokens) == [u EXCEPT !.used_today = u.used_today + tokens]

\* (a reset_if_needed that stamps last_reset but keeps used_today)
reset_if_needed_keeps_used(u, t) ==
    IF date_naive(t) # date_naive(u.last_reset)
    THEN [u EXCEPT !.last_reset = t]
    ELSE u

\* TokenUsage::reset_if_needed
reset_if_needed(u, t) ==
    IF date_naive(t) # date_naive(u.last_reset)
    THEN [u EXCEPT !.used_today = 0, !.last_reset = t]
    ELSE u

(* ------------------------- core/errors.rs ----------------------------- *)

\* Result<TranslationResult, TranslationError> as one record shape
Ok(tokens_used, model_used) ==
    [ok |-> TRUE, kind |-> "Ok", detail |-> "", status |-> 0,
     tokens_used |-> tokens_used, model_used |-> model_used]
Err(kind, detail, status) ==
    [ok |-> FALSE, kind |-> kind, detail |-> detail, status |-> status,
     tokens_used |-> 0, model_used |-> 0]
\* Option::None / no value yet
None == Err("None", "", 0)

QuotaExceededError == Err("QuotaExceededError", "", 0)

(* ------------------------- core/config.rs ----------------------------- *)

\* (a filter that forgets m.enabled)
\* (a filter on the enabled flag alone)
get_models_by_lane_enabled(cfg, lane) ==
    SelectSeq(cfg.models, LAMBDA m : m.enabled)

get_models_by_lane_any(cfg, lane) ==
    SelectSeq(cfg.models, LAMBDA m : m.lane = lane)

\* TranslatorConfig::get_models_by_lane
get_models_by_lane(cfg, lane) ==
    SelectSeq(cfg.models, LAMBDA m : m.lane = lane /\ m.enabled)

\* TranslatorConfig::default: retry_delay_ms
RetryDelayMs == 1000

\* config.models as tried here: every list of at most MaxModels models, the
\* i-th with id i (the empty id of an empty list is 0), any lane, enabled or not
ModelLists ==
    UNION { [1..n -> LaneType \X BOOLEAN] : n \in 0..MaxModels }
MakeModels(f) ==
    [i \in DOMAIN f |-> Model(i, f[i][1], f[i][2])]

\* TranslatorConfig::default: max_rps (an f64; whole values suffice here)
DefaultMaxRps == 10

\* a TranslatorConfig with a key, an endpoint and the default max_rps
BaseConfig(mc, mr, models) ==
    [api_key |-> "key", api_endpoint |-> "endpoint", max_rps |-> DefaultMaxRps,
     max_concurrent |-> mc, max_retries |-> mr,
     retry_delay_ms |-> RetryDelayMs, models |-> models]

\* TranslatorConfig values as a caller may build them: key and endpoint
\* empty or not, max_concurrent from 0, max_rps negative, zero or positive
RawConfigs ==
    { [BaseConfig(mc, mr, MakeModels(f)) EXCEPT
            !.api_key = k, !.api_endpoint = e, !.max_rps = rps] :
        k \in {"", "key"}, e \in {"", "endpoint"},
        rps \in {-1, 0, DefaultMaxRps},
        mc \in 0..MaxConcurrent, mr \in 0..MaxRetries, f \in ModelLists }

\* Ok(()) of anyhow::Result<()>
Valid == Ok(0, 0)

\* (a validate that also refuses an empty model list)
validate_requires_models(cfg) ==
    IF cfg.api_key = "" THEN Err("anyhow", "API key is required", 0)
    ELSE IF cfg.api_endpoint = ""
    THEN Err("anyhow", "API endpoint is required", 0)
    ELSE IF Len(cfg.models) = 0 THEN Err("anyhow", "No models configured", 0)
    ELSE IF cfg.max_concurrent = 0
    THEN Err("anyhow", "max_concurrent must be greater than 0", 0)
    ELSE IF cfg.max_rps <= 0
    THEN Err("anyhow", "max_rps must be greater than 0", 0)
    ELSE Valid

\* TranslatorConfig::validate; an empty model list is only warned about
validate(cfg) ==
    IF cfg.api_key = "" THEN Err("anyhow", "API key is required", 0)
    ELSE IF cfg.api_endpoint = ""
    THEN Err("anyhow", "API endpoint is required", 0)
    ELSE IF cfg.max_concurrent = 0
    THEN Err("anyhow", "max_concurrent must be greater than 0", 0)
    ELSE IF cfg.max_rps <= 0
    THEN Err("anyhow", "max_rps must be greater than 0", 0)
    ELSE Valid

\* From<anyhow::Error> for TranslationError
from_anyhow(err) == Err("InternalError", err.detail, 0)

\* TranslatorConfig values that pass validate()
Configs ==
    { BaseConfig(mc, mr, MakeModels(f)) :
        mc \in 1..MaxConcurrent, mr \in 0..MaxRetries, f \in ModelLists }

(* --------------------- core/client.rs: transport ---------------------- *)

\* What the upstream can answer to one POST: the transport fails, or a status
\* comes back with a body that parses or not, holds a translation or not,
\* is some text (for an error status: the error text), and reports
\* total_tokens.
Responses ==
    { [transport |-> FALSE, status |-> 0, json |-> FALSE, content |-> FALSE,
       body |-> "", total_tokens |-> 0] }
    \cup { [transport |-> TRUE, status |-> 200, json |-> FALSE, content |-> FALSE,
            body |-> "", total_tokens |-> 0] }
    \cup { [transport |-> TRUE, status |-> 200, json |-> TRUE, content |-> FALSE,
            body |-> "", total_tokens |-> 0] }
    \cup { [transport |-> TRUE, status |-> 200, json |-> TRUE, content |-> TRUE,
            body |-> "", total_tokens |-> k] : k \in 0..MaxTokens }
    \cup { [transport |-> TRUE, status |-> st, json |-> FALSE, content |-> FALSE,
            body |-> b, total_tokens |-> 0] : st \in {429, 500}, b \in {"", "quota"} }

\* the stub upstream: it answers with a translation or with status 500
ConcResponses ==
    { r \in Responses : r.transport /\ r.body = "" /\
        \/ r.status = 500
        \/ r.content /\ r.total_tokens = MaxTokens }

\* the texts tried as response bodies
Bodies == {"", "quota", "daily limit reached", "Quota used up", "server error"}

\* str::contains on the texts of Bodies (it is case-sensitive)
contains(text, pattern) ==
    \/ text = "quota" /\ pattern = "quota"
    \/ text = "daily limit reached" /\ pattern = "limit"

\* the responses tried on send_request alone: more statuses, every body of
\* Bodies with every status
WireResponses ==
    { [transport |-> FALSE, status |-> 0, json |-> FALSE, content |-> FALSE,
       body |-> "", total_tokens |-> 0] }
    \cup { [transport |-> TRUE, status |-> st, json |-> j, content |-> j /\ ct,
            body |-> b, total_tokens |-> k] :
                st \in {200, 204, 302, 400, 429, 500}, j \in BOOLEAN,
                ct \in BOOLEAN, b \in Bodies, k \in 0..MaxTokens }

\* StatusCode::is_success
is_success(status) == 200 <= status /\ status < 300

\* (the quota/limit test made before the 429 test)
send_request_marker_first(resp, model) ==
    IF ~resp.transport THEN Err("NetworkError", "", 0)
    ELSE IF is_success(resp.status) THEN
        IF ~resp.json THEN Err("InvalidResponseError", "json", 0)
        ELSE IF ~resp.content
        THEN Err("InvalidResponseError", "No translation in response", 0)
        ELSE Ok(resp.total_tokens, model.id)
    ELSE IF contains(resp.body, "quota") \/ contains(resp.body, "limit")
    THEN QuotaExceededError
    ELSE IF resp.status = 429 THEN Err("RateLimitError", "", 0)
    ELSE Err("ApiError", resp.body, resp.status)

\* (a result stamped with the first configured model instead of the model
\* that answered)
send_request_first_model(resp, model) ==
    IF ~resp.transport THEN Err("NetworkError", "", 0)
    ELSE IF is_success(resp.status) THEN
        IF ~resp.json THEN Err("InvalidResponseError", "json", 0)
        ELSE IF ~resp.content
        THEN Err("InvalidResponseError", "No translation in response", 0)
        ELSE Ok(resp.total_tokens, 1)
    ELSE IF resp.status = 429 THEN Err("RateLimitError", "", 0)
    ELSE IF contains(resp.body, "quota") \/ contains(resp.body, "limit")
    THEN QuotaExceededError
    ELSE Err("ApiError", resp.body, resp.status)

\* AsyncTranslator::send_request: the result of one wire call
send_request(resp, model) ==
    IF ~resp.transport THEN Err("NetworkError", "", 0)
    ELSE IF is_success(resp.status) THEN
        IF ~resp.json THEN Err("InvalidResponseError", "json", 0)
        ELSE IF ~resp.content
        THEN Err("InvalidResponseError", "No translation in response", 0)
        ELSE Ok(resp.total_tokens, model.id)
    ELSE IF resp.status = 429 THEN Err("RateLimitError", "", 0)
    ELSE IF contains(resp.body, "quota") \/ contains(resp.body, "limit")
    THEN QuotaExceededError
    ELSE Err("ApiError", resp.body, resp.status)

(* ------------------------------ state --------------------------------- *)

VARIABLES
    config,         \* Arc<TranslatorConfig>, read-only after new()
    usage,          \* TokenTracker.usage: the TokenUsage behind the RwLock
    usage0,         \* the TokenUsage at the start (never changes)
    usage_writers,  \* tasks holding the RwLock's write guard
    now,            \* chrono::Utc::now()
    permits,        \* AsyncTranslator.semaphore: available permits
    current_model,  \* AsyncTranslator.current_model
    call,           \* per translate() caller: its locals and position
    hist,           \* per translate() caller: what its current call has done
    observed,       \* the callers whose calls are recorded in hist
    upstream,       \* the upstream: "any" answer, or the "stub" of SpecConc
    client,         \* per direct TokenTracker user: its call and position
    batch,          \* per translate_batch() caller: requests, loop, results
    probe,          \* one function applied on its own: its input and output
    front           \* a front end's loop over its texts, one translate() each

vars == <<config, usage, usage0, usage_writers, now, permits, current_model,
          call, hist, observed, upstream, client, batch, probe, front>>

\* no function is being applied on its own
NoProbe ==
    [pc |-> "off", op |-> "none", input |-> 0, model |-> 0, output |-> None]

\* no front end is at work. items are the texts it was given, yaml what its
\* "---" block is, fields the strings of that block that are translated, in
\* the order the HashMap yields them, panics where a slice of the content
\* misses a byte boundary, i the number of texts its loop has taken, out
\* what it has pushed so far, submitted the indices of the texts handed to
\* translate(), failed those translate() returned an error for, j the
\* number of fields taken, inserted what was inserted for them, result what
\* the front end function returned
NoFront ==
    [pc |-> "off", op |-> "none", items |-> <<>>, yaml |-> "none",
     fields |-> <<>>, panics |-> "none", i |-> 0, out |-> <<>>,
     submitted |-> {}, failed |-> {}, j |-> 0, inserted |-> <<>>,
     result |-> "none"]

\* a caller outside translate_batch(): requests are text lengths, i is the
\* number of requests the for loop has taken, served notes which request
\* each translate() call was given and what it returned
NoBatch ==
    [pc |-> "off", requests |-> <<>>, i |-> 0, results |-> <<>>,
     served |-> <<>>]

\* a caller outside translate(); result holds what its last call returned
IdleCall ==
    [pc |-> "idle", permit |-> FALSE,
     lane |-> "slow", idx |-> 0, attempt |-> 0, delay |-> 0,
     last_error |-> None, e |-> None, trans_result |-> None, result |-> None]

\* no translate_with_model run has ended yet (err is what the run returned,
\* first_err and last_attempt_err what its first and last wire call answered)
NoRun ==
    [model |-> 0, lane |-> "slow", ended |-> FALSE, ok |-> FALSE, wires |-> 0,
     quota |-> FALSE, quota_err |-> FALSE,
     err |-> None, first_err |-> None, last_attempt_err |-> None]

\* the record of one translate() call: wire calls issued in all and in the
\* current translate_with_model run, whether one of them answered
\* QuotaExceededError and whether a wire call followed it, the models whose
\* run has ended, the last run ended, the error each lane ended with,
\* used_today as the precheck left it, how the bookkeeping use_tokens ended,
\* whether a wire call has succeeded and whether a wire call followed it,
\* the wire calls of the call that have been sent and have not answered,
\* the phases the call has entered, in order.
\* With deep set it records as well the errors of the first and the latest
\* failed wire call of the current run, the delays slept in the current run,
\* current_model and used_today as the call found them, and whether the
\* UTC date had changed when its precheck ran.
NoHist ==
    [wires |-> 0, exhausted |-> FALSE, quota_seen |-> FALSE,
     wire_after_quota |-> FALSE, run_wires |-> 0, run_quota |-> FALSE,
     run_after_quota |-> FALSE, tried |-> {}, last_run |-> NoRun,
     slow_err |-> None, fast_err |-> None, used_start |-> 0,
     tracked |-> "none", ok_seen |-> FALSE, wire_after_ok |-> FALSE,
     in_flight |-> 0, phases |-> <<>>,
     deep |-> FALSE, run_first_err |-> None, run_last_err |-> None,
     run_delays |-> <<>>, model_before |-> 0, used_before |-> 0,
     rolled |-> FALSE]

IdleClient ==
    [pc |-> "idle", op |-> "none", tokens |-> 0, ok |-> FALSE,
     stale |-> FALSE, used_before |-> 0, reset_before |-> 0, used_eval |-> 0,
     reset_eval |-> 0, used_after |-> 0, at |-> 0, answer |-> 0]

(* ------------------- core/client.rs: orchestration -------------------- *)

\* (an acquire that never waits)
Semaphore_available_always(p) == TRUE

\* tokio Semaphore::acquire completes only when a permit is available
Semaphore_available(p) == p > 0

\* (a permit that is forgotten instead of dropped)
drop_permit_forgotten(held) == 0

\* drop(_permit) at the end of translate(): permits handed back
drop_permit(held) == IF held THEN 1 ELSE 0

\* (the two lanes swapped)
lane_order_swapped == <<"fast", "slow">>

\* translate(): the lane tried first (line 72) and the fallback (line 97)
lane_order == <<"slow", "fast">>

\* (let _ = ...: the permit is dropped as soon as it is granted)
let_permit_dropped(granted) == FALSE

\* translate(): let _permit = self.semaphore.acquire().await.unwrap(), line
\* 69: the permit is bound to a local that lives until translate() returns
let_permit(granted) == granted

\* translate(): the estimate of line 63
estimate_tokens(len) == len \div 4

\* (a delay of retry_delay_ms * 2^attempt)
backoff_from_attempt(cfg, attempt) == cfg.retry_delay_ms * (2 ^ attempt)

\* translate_with_model: the delay in ms before attempt n >= 1 (line 170; u64,
\* far from overflow for the attempt numbers reached here)
backoff(cfg, attempt) == cfg.retry_delay_ms * (2 ^ (attempt - 1))

\* (a loop over 0..max_retries that stops one short)
retry_again_one_short(cfg, attempt, err) ==
    err.kind # "QuotaExceededError" /\ attempt + 1 < cfg.max_retries

\* (a loop that retries QuotaExceededError like any other error)
retry_again_on_quota(cfg, attempt, err) == attempt < cfg.max_retries

\* translate_with_model: after a failed attempt, does the loop go round again?
\* QuotaExceededError breaks; every other error continues while attempts remain
retry_again(cfg, attempt, err) ==
    err.kind # "QuotaExceededError" /\ attempt < cfg.max_retries

\* (the first error kept instead of the latest)
last_error_first(last_error, e) == IF last_error = None THEN e ELSE last_error

\* translate_with_model: last_error = Some(e), line 181
last_error_set(last_error, e) == e

\* (a success that is not returned: the loop treats it like a failure)
attempt_succeeded_never(r) == FALSE

\* translate_with_model: the match arm Ok(result) => return Ok(result),
\* lines 174-179
attempt_succeeded(r) == r.ok

\* (a lane that gives up after its first model)
more_models_none(models, idx) == FALSE

\* translate_with_lane: does the for loop have a model after index idx?
more_models(models, idx) == idx < Len(models)

\* (the fast lane's error surfaced)
both_failed_fast(e, fast_err) == fast_err

\* translate(): the error returned when both lanes failed (line 121)
both_failed(e, fast_err) == e

\* (a marker that is left as it was)
set_current_kept(current, trans_result) == current

\* translate(): *current = trans_result.model_used.clone(), lines 88 / 113
set_current(current, trans_result) == trans_result.model_used

\* (a tracking failure propagated with ? instead of logged)
tracking_failed_propagated(trans_result) ==
    Err("InternalError", "Token quota exceeded", 0)

\* translate(): use_tokens returned Err (lines 77-83 / 102-108): it is logged
\* and trans_result stays what the call returns
tracking_failed(trans_result) == trans_result

\* (a loop that gives up at the first failed request)
batch_more_until_failure(requests, i, results) ==
    /\ i < Len(requests)
    /\ \A k \in 1..Len(results) : results[k].ok

\* translate_batch: does the for loop over requests have another request?
batch_more(requests, i, results) == i < Len(requests)

\* translate_batch: results.push(result), line 309
push(results, result) == Append(results, result)

\* ConfigError messages of translate_with_lane
NoModels(lane) ==
    Err("ConfigError", IF lane = "slow" THEN "No models available for lane: slow"
                       ELSE "No models available for lane: fast", 0)
AllFailed(lane) ==
    Err("ConfigError", IF lane = "slow" THEN "All models in lane slow failed"
                       ELSE "All models in lane fast failed", 0)

\* (the lane hands on the error of the last model it tried)
lane_exhausted_last(lane, last_error) == last_error

\* translate_with_lane after its loop, lines 153-156: whatever the models
\* returned, the lane fails with its own ConfigError
lane_exhausted(lane, last_error) == AllFailed(lane)

\* The operators below take and return st = [c, h, permits]: a caller's call
\* record, the record of its call, and the semaphore's available permits.

\* the model a caller is working on
cur_model(cfg, c) == get_models_by_lane(cfg, c.lane)[c.idx]

\* the call enters a phase: QuotaCheck (lines 63-66), AdmissionWait (69),
\* LaneSlow (72), LaneFast (97), Success (91 / 116), Failure (65 / 121)
enter(h, phase) == [h EXCEPT !.phases = Append(@, phase)]

\* translate() returns res: its locals die, the permit (if held) is dropped
translate_return(st, res) ==
    [c |-> [IdleCall EXCEPT !.pc = "done", !.result = res],
     h |-> enter(st.h, IF res.ok THEN "Success" ELSE "Failure"),
     permits |-> st.permits + drop_permit(st.c.permit)]

\* send_request(request, model) is called: one more wire call is pending
send_request_begin(n) == n + 1

\* (the loop goes on while the wire call is still pending)
send_request_end_pending(n) == n

\* send_request(...).await has completed, line 173: the wire call is over
send_request_end(n) == n - 1

\* a wire call is issued (send_request is awaited): line 173
issue_wire(st) ==
    [st EXCEPT !.c.pc = "wire",
               !.h.in_flight = send_request_begin(@),
               !.h.wires = @ + 1,
               !.h.run_wires = @ + 1,
               !.h.wire_after_quota = @ \/ st.h.quota_seen,
               !.h.wire_after_ok = @ \/ st.h.ok_seen,
               !.h.run_after_quota = @ \/ st.h.run_quota]

\* translate_with_model(request, model) starts: attempt 0 runs at once
model_start(st, lane, idx) ==
    issue_wire([st EXCEPT !.c.lane = lane, !.c.idx = idx, !.c.attempt = 0,
                          !.c.delay = 0, !.c.last_error = None,
                          !.h.run_wires = 0, !.h.run_quota = FALSE,
                          !.h.run_after_quota = FALSE,
                          !.h.run_first_err = None, !.h.run_last_err = None,
                          !.h.run_delays = <<>>])

\* the current translate_with_model run is over: note it
end_run(cfg, st, ok) ==
    [st EXCEPT !.h.tried = @ \cup {cur_model(cfg, st.c).id},
               !.h.last_run =
                    [model |-> cur_model(cfg, st.c).id, lane |-> st.c.lane,
                     ended |-> TRUE, ok |-> ok, wires |-> st.h.run_wires,
                     quota |-> st.h.run_quota,
                     quota_err |-> ~ok /\ st.c.last_error = QuotaExceededError,
                     err |-> IF st.h.deep /\ ~ok THEN st.c.last_error ELSE None,
                     first_err |-> st.h.run_first_err,
                     last_attempt_err |-> st.h.run_last_err]]

RECURSIVE translate_with_lane(_, _, _)

\* translate(): a lane returned Err(err) (lines 93-124): after the first lane
\* keep it as e and try the fallback lane, after the fallback lane return
lane_failed(cfg, st, lane, err) ==
    IF lane = lane_order[1]
    THEN translate_with_lane(cfg,
            [st EXCEPT !.c.e = err, !.h.slow_err = err], lane_order[2])
    ELSE translate_return([st EXCEPT !.h.fast_err = err],
                          both_failed(st.c.e, err))

\* translate_with_lane up to its first await (lines 134-144)
translate_with_lane(cfg, st0, lane) ==
    LET st == [st0 EXCEPT !.h = enter(@, IF lane = "slow" THEN "LaneSlow"
                                         ELSE "LaneFast")] IN
    IF Len(get_models_by_lane(cfg, lane)) = 0
    THEN lane_failed(cfg, st, lane, NoModels(lane))
    ELSE model_start(st, lane, 1)

\* translate_with_model returned Err (lines 146-155): next model, or the lane
\* fails with ConfigError
model_failed(cfg, st) ==
    LET st1 == end_run(cfg, st, FALSE) IN
    IF more_models(get_models_by_lane(cfg, st.c.lane), st.c.idx)
    THEN model_start(st1, st.c.lane, st.c.idx + 1)
    ELSE lane_failed(cfg, st1, st.c.lane,
                     lane_exhausted(st.c.lane, st.c.last_error))

\* send_request returned r (lines 173-193, 144-146, 74-80)
wire_done(cfg, st0, r) ==
    LET st == [st0 EXCEPT !.h.ok_seen = @ \/ r.ok,
                          !.h.in_flight = send_request_end(@)] IN
    IF attempt_succeeded(r)
    THEN \* up through translate_with_lane to translate(): use_tokens is awaited
         [end_run(cfg, st, TRUE) EXCEPT !.c.pc = "use_tokens_wait",
                                        !.c.trans_result = r,
                                        !.c.last_error = None]
    ELSE LET q == r.kind = "QuotaExceededError"
             st1 == [st EXCEPT !.c.last_error = last_error_set(@, r),
                               !.h.run_first_err =
                                    IF st.h.deep /\ @ = None THEN r ELSE @,
                               !.h.run_last_err = IF st.h.deep THEN r ELSE @,
                               !.h.quota_seen = @ \/ q,
                               !.h.run_quota = @ \/ q]
         IN IF retry_again(cfg, st.c.attempt, r)
            THEN [st1 EXCEPT !.c.pc = "sleep",
                             !.c.attempt = @ + 1,
                             !.c.delay = backoff(cfg, st.c.attempt + 1)]
            ELSE model_failed(cfg, st1)

(* ----------------------- core/token_tracker.rs ------------------------ *)

\* (a write guard handed out while another is held)
RwLock_write_always(writers) == TRUE

\* RwLock::write().await completes only when nobody holds the lock
RwLock_write_free(writers) == writers = {}

\* (a write guard that is never dropped)
RwLock_release_kept(writers, task) == writers

\* the write guard goes out of scope (token_tracker.rs line 47)
RwLock_release(writers, task) == writers \ {task}

\* (a check that books the tokens it has found room for)
TokenTracker_can_use_reserving(u, t, tokens) ==
    LET u1 == reset_if_needed(u, t) IN
    [usage |-> IF can_use(u1, tokens) THEN add_tokens(u1, tokens) ELSE u1,
     ok |-> can_use(u1, tokens)]

\* (a write guard that outlives can_use and is held by the caller)
can_use_guard_held(writers, task) == writers \cup {task}

\* TokenTracker::can_use returns (line 38): its write guard is dropped
can_use_guard_dropped(writers, task) == writers \ {task}

\* (the check made on the usage as found, the reset applied afterwards)
TokenTracker_can_use_before_reset(u, t, tokens) ==
    [usage |-> reset_if_needed(u, t), ok |-> can_use(u, tokens)]

\* TokenTracker::can_use under the write guard (lines 35-37); also the first
\* half of TokenTracker::use_tokens / TokenUsage::use_tokens (lines 44-46,
\* models.rs 107): reset_if_needed, then the check
TokenTracker_can_use(u, t, tokens) ==
    LET u1 == reset_if_needed(u, t) IN [usage |-> u1, ok |-> can_use(u1, tokens)]

\* TokenTracker::reset under the write guard (lines 81-83)
TokenTracker_reset(u, t) == [u EXCEPT !.used_today = 0, !.last_reset = t]

\* (a threshold of a tenth computed without the integer division)
is_low_exact(u) == remaining(u) * 10 < u.daily_limit

\* TokenTracker::is_low under the read guard (lines 72-76)
is_low(u) == remaining(u) < u.daily_limit \div 10

(* ----------------------------- actions -------------------------------- *)

St(c) == [c |-> call[c], h |-> hist[c], permits |-> permits]

\* the record of a call that starts: a deep record stays deep and notes
\* current_model and used_today as the call found them
call_found(h, deep, model, u, t) ==
    IF deep
    THEN [h EXCEPT !.deep = TRUE, !.model_before = model,
                   !.used_before = u.used_today,
                   !.rolled = (date_naive(t) # date_naive(u.last_reset))]
    ELSE h

\* the sleep of line 170 is over: a deep record notes its delay
sleep_done(st) ==
    IF st.h.deep
    THEN [st EXCEPT !.h.run_delays = Append(@, st.c.delay)]
    ELSE st

Put(c, st) ==
    /\ call' = [call EXCEPT ![c] = st.c]
    /\ hist' = [hist EXCEPT ![c] = IF c \in observed THEN st.h ELSE NoHist]
    /\ permits' = st.permits

\* the clock advances
Tick ==
    /\ now < MaxNow
    /\ now' = now + 1
    /\ UNCHANGED <<observed, upstream, batch, probe, front, config, usage, usage0, usage_writers, permits, current_model,
                   call, hist, client>>

\* translate(request), lines 61-69: the quota precheck, run under the tracker's
\* write guard; on a pass the caller goes on to semaphore.acquire()
translate_precheck(c, len) ==
    /\ call[c].pc \in {"idle", "done"}
    /\ RwLock_write_free(usage_writers)
    /\ LET est == estimate_tokens(len)
           r == TokenTracker_can_use(usage, now, est)
       IN /\ usage' = r.usage
          /\ hist' = [hist EXCEPT ![c] =
                        IF c \in observed
                        THEN call_found([NoHist EXCEPT
                                    !.exhausted = (remaining(r.usage) = 0),
                                    !.used_start = r.usage.used_today,
                                    !.phases =
                                        <<"QuotaCheck",
                                          IF r.ok THEN "AdmissionWait"
                                          ELSE "Failure">>],
                                hist[c].deep, current_model, usage, now)
                        ELSE NoHist]
          /\ call' = [call EXCEPT ![c] =
                IF r.ok
                THEN [IdleCall EXCEPT !.pc = "acquire"]
                ELSE [IdleCall EXCEPT !.pc = "done",
                                      !.result = QuotaExceededError]]
    /\ usage_writers' = can_use_guard_dropped(usage_writers, c)
    /\ UNCHANGED <<observed, upstream, batch, probe, front, config, usage0, now, permits, current_model,
                   client>>

\* line 69 granted, then translate_with_lane(Slow) up to the first wire call
translate_acquire(c) ==
    /\ call[c].pc = "acquire"
    /\ Semaphore_available(permits)
    /\ Put(c, translate_with_lane(config,
                [St(c) EXCEPT !.c.permit = let_permit(TRUE),
                              !.permits = permits - 1
                                    + drop_permit(~let_permit(TRUE))],
                lane_order[1]))
    /\ UNCHANGED <<observed, upstream, batch, probe, front, config, usage, usage0, usage_writers, now, current_model,
                   client>>

\* a wire call answers: retry, next model, next lane, bookkeeping or return
translate_wire(c, resp) ==
    /\ call[c].pc = "wire"
    /\ Put(c, wire_done(config, St(c),
                        send_request(resp, cur_model(config, call[c]))))
    /\ UNCHANGED <<observed, upstream, batch, probe, front, config, usage, usage0, usage_writers, now, current_model,
                   client>>

\* the backoff sleep of line 170 ends and the next attempt is sent
translate_sleep(c) ==
    /\ call[c].pc = "sleep"
    /\ Put(c, issue_wire(sleep_done(St(c))))
    /\ UNCHANGED <<observed, upstream, batch, probe, front, config, usage, usage0, usage_writers, now, current_model,
                   client>>

\* token_tracker.use_tokens(tokens_used), lines 77-83 / 102-108: write guard
\* taken, reset_if_needed, check; a failed check is only logged
translate_use_tokens(c) ==
    /\ call[c].pc = "use_tokens_wait"
    /\ RwLock_write_free(usage_writers)
    /\ LET r == TokenTracker_can_use(usage, now, call[c].trans_result.tokens_used)
       IN /\ usage' = r.usage
          /\ usage_writers' = IF r.ok THEN usage_writers \cup {c} ELSE usage_writers
          /\ call' = [call EXCEPT
                ![c].pc = IF r.ok THEN "use_tokens_add" ELSE "set_model",
                ![c].trans_result = IF r.ok THEN @ ELSE tracking_failed(@)]
          /\ hist' = [hist EXCEPT ![c].tracked =
                        IF c \notin observed THEN @
                        ELSE IF r.ok THEN "ok" ELSE "failed"]
    /\ UNCHANGED <<observed, upstream, batch, probe, front, config, usage0, now, permits, current_model, client>>

\* TokenUsage::use_tokens line 110, then the write guard is dropped
translate_use_tokens_add(c) ==
    /\ call[c].pc = "use_tokens_add"
    /\ usage' = add_tokens(usage, call[c].trans_result.tokens_used)
    /\ usage_writers' = RwLock_release(usage_writers, c)
    /\ call' = [call EXCEPT ![c].pc = "use_tokens_log"]
    /\ UNCHANGED <<observed, upstream, batch, probe, front, config, usage0, now, permits, current_model, hist, client>>

\* TokenTracker::use_tokens lines 50-53: the read guard for the debug line
translate_use_tokens_log(c) ==
    /\ call[c].pc = "use_tokens_log"
    /\ RwLock_write_free(usage_writers)
    /\ call' = [call EXCEPT ![c].pc = "set_model"]
    /\ UNCHANGED <<observed, upstream, batch, probe, front, config, usage, usage0, usage_writers, now, permits,
                   current_model, hist, client>>

\* lines 85-91 / 110-116: current_model is set and Ok(trans_result) returned
translate_set_model(c) ==
    /\ call[c].pc = "set_model"
    /\ current_model' = set_current(current_model, call[c].trans_result)
    /\ Put(c, translate_return(St(c), call[c].trans_result))
    /\ UNCHANGED <<observed, upstream, batch, probe, front, config, usage, usage0, usage_writers, now, client>>

\* for an observed client, the number a read-only call returned
answered(q, rec, n) == IF q \in observed THEN [rec EXCEPT !.answer = n] ELSE rec

\* for an observed client, what its call met and did: whether the date had
\* changed, used_today and last_reset before the call (u) and as the check
\* saw them (u1), used_today when the call's write guard is dropped, and the
\* instant of the call
observe(q, rec, u, u1, t) ==
    IF q \in observed
    THEN [rec EXCEPT !.stale = date_naive(t) # date_naive(u.last_reset),
                     !.used_before = u.used_today,
                     !.reset_before = u.last_reset,
                     !.used_eval = u1.used_today,
                     !.reset_eval = u1.last_reset,
                     !.used_after = u1.used_today,
                     !.at = t]
    ELSE rec

\* a direct caller of TokenTracker::can_use(tokens)
tracker_can_use(q, tokens) ==
    /\ client[q].pc \in {"idle", "done"}
    /\ RwLock_write_free(usage_writers)
    /\ LET r == TokenTracker_can_use(usage, now, tokens)
       IN /\ usage' = r.usage
          /\ client' = [client EXCEPT ![q] =
                observe(q, [IdleClient EXCEPT !.pc = "done", !.op = "can_use",
                                              !.tokens = tokens, !.ok = r.ok],
                        usage, r.usage, now)]
    /\ UNCHANGED <<observed, upstream, batch, probe, front, config, usage0, usage_writers, now, permits, current_model,
                   call, hist>>

\* a direct caller of TokenTracker::use_tokens(tokens): write guard taken,
\* reset_if_needed, check; Err is returned on a failed check
tracker_use_tokens(q, tokens) ==
    /\ client[q].pc \in {"idle", "done"}
    /\ RwLock_write_free(usage_writers)
    /\ LET r == TokenTracker_can_use(usage, now, tokens)
       IN /\ usage' = r.usage
          /\ usage_writers' = IF r.ok THEN usage_writers \cup {q} ELSE usage_writers
          /\ client' = [client EXCEPT ![q] =
                observe(q, [IdleClient EXCEPT
                                !.pc = IF r.ok THEN "use_tokens_add" ELSE "done",
                                !.op = "use_tokens", !.tokens = tokens,
                                !.ok = r.ok],
                        usage, r.usage, now)]
    /\ UNCHANGED <<observed, upstream, batch, probe, front, config, usage0, now, permits, current_model, call, hist>>

tracker_use_tokens_add(q) ==
    /\ client[q].pc = "use_tokens_add"
    /\ usage' = add_tokens(usage, client[q].tokens)
    /\ usage_writers' = RwLock_release(usage_writers, q)
    /\ client' = [client EXCEPT ![q].pc = "use_tokens_log",
                                ![q].used_after =
                                    IF q \in observed THEN usage'.used_today ELSE @]
    /\ UNCHANGED <<observed, upstream, batch, probe, front, config, usage0, now, permits, current_model, call, hist>>

tracker_use_tokens_log(q) ==
    /\ client[q].pc = "use_tokens_log"
    /\ RwLock_write_free(usage_writers)
    /\ client' = [client EXCEPT ![q].pc = "done"]
    /\ UNCHANGED <<observed, upstream, batch, probe, front, config, usage, usage0, usage_writers, now, permits,
                   current_model, call, hist>>

\* a direct caller of TokenTracker::reset()
tracker_reset(q) ==
    /\ client[q].pc \in {"idle", "done"}
    /\ RwLock_write_free(usage_writers)
    /\ usage' = TokenTracker_reset(usage, now)
    /\ client' = [client EXCEPT ![q] =
            observe(q, [IdleClient EXCEPT !.pc = "done", !.op = "reset",
                                          !.ok = TRUE],
                    usage, usage', now)]
    /\ UNCHANGED <<observed, upstream, batch, probe, front, config, usage0, usage_writers, now, permits, current_model,
                   call, hist>>

\* a direct caller of TokenTracker::is_low(): the read guard is granted when
\* no write guard is held
tracker_is_low(q) ==
    /\ client[q].pc \in {"idle", "done"}
    /\ RwLock_write_free(usage_writers)
    /\ client' = [client EXCEPT ![q] =
            observe(q, [IdleClient EXCEPT !.pc = "done", !.op = "is_low",
                                          !.ok = is_low(usage)],
                    usage, usage, now)]
    /\ UNCHANGED <<observed, upstream, batch, probe, front, config, usage, usage0, usage_writers, now, permits,
                   current_model, call, hist>>

\* a direct caller of TokenTracker::remaining(), lines 65-68: the read guard,
\* then TokenUsage::remaining
tracker_remaining(q) ==
    /\ client[q].pc \in {"idle", "done"}
    /\ RwLock_write_free(usage_writers)
    /\ client' = [client EXCEPT ![q] =
            answered(q,
                observe(q, [IdleClient EXCEPT !.pc = "done", !.op = "remaining",
                                              !.ok = TRUE],
                        usage, usage, now),
                remaining(usage))]
    /\ UNCHANGED <<observed, upstream, batch, probe, front, config, usage, usage0, usage_writers, now, permits,
                   current_model, call, hist>>

\* a direct caller of TokenTracker::get_stats(), lines 59-62 (and of
\* AsyncTranslator::get_token_usage): the read guard, then a clone of the
\* usage; answer is the used_today of the clone
tracker_get_stats(q) ==
    /\ client[q].pc \in {"idle", "done"}
    /\ RwLock_write_free(usage_writers)
    /\ client' = [client EXCEPT ![q] =
            answered(q,
                observe(q, [IdleClient EXCEPT !.pc = "done", !.op = "get_stats",
                                              !.ok = TRUE],
                        usage, usage, now),
                usage.used_today)]
    /\ UNCHANGED <<observed, upstream, batch, probe, front, config, usage, usage0, usage_writers, now, permits,
                   current_model, call, hist>>

(* -------------------------- specifications ---------------------------- *)

\* AsyncTranslator::new (lines 36-43) with TokenTracker::new(daily_limit);
\* callers and clients are the tasks that take part
InitWith(cfg, daily_limit, callers, clients, watch, answers) ==
    /\ config = cfg
    /\ observed = watch
    /\ upstream = answers
    /\ usage = TokenUsage_new(daily_limit, 0)
    /\ usage0 = usage
    /\ usage_writers = {}
    /\ now = 0
    /\ permits = cfg.max_concurrent
    /\ current_model = IF Len(cfg.models) = 0 THEN 0 ELSE cfg.models[1].id
    /\ call = [c \in Callers |->
                IF c \in callers THEN IdleCall ELSE [IdleCall EXCEPT !.pc = "off"]]
    /\ hist = [c \in Callers |-> NoHist]
    /\ client = [q \in Clients \cup QuotaCallers |->
                IF q \in clients THEN IdleClient
                ELSE [IdleClient EXCEPT !.pc = "off"]]
    /\ batch = [c \in Callers |-> NoBatch]
    /\ probe = NoProbe
    /\ front = NoFront

\* what the upstream may answer
Answers == IF upstream = "any" THEN Responses ELSE ConcResponses

\* AsyncTranslator::new(config), lines 26-52: validate()?, then the
\* semaphore, the tracker and current_model are built
AsyncTranslator_new(c) ==
    /\ call[c].pc = "new"
    /\ LET v == validate(config)
       IN IF v.ok
          THEN /\ permits' = config.max_concurrent
               /\ usage' = usage0
               /\ current_model' = IF Len(config.models) = 0 THEN 0
                                   ELSE config.models[1].id
               /\ call' = [call EXCEPT ![c] = IdleCall]
          ELSE /\ call' = [call EXCEPT ![c] =
                        [IdleCall EXCEPT !.pc = "failed",
                                         !.result = from_anyhow(v)]]
               /\ UNCHANGED <<permits, usage, current_model>>
    /\ UNCHANGED <<observed, upstream, batch, probe, front, config, usage0, usage_writers, now, hist, client>>

\* translate_batch(requests), lines 301-307: results is empty; with no
\* request the empty results are returned at once
translate_batch(c, requests) ==
    /\ call[c].pc \in {"idle", "done"}
    /\ batch[c].pc = "off"
    /\ batch' = [batch EXCEPT ![c] =
            [NoBatch EXCEPT
                !.pc = IF batch_more(requests, 0, <<>>) THEN "run" ELSE "done",
                !.requests = requests]]
    /\ call' = [call EXCEPT ![c] = IdleCall]
    /\ UNCHANGED <<observed, upstream, probe, front, config, usage, usage0, usage_writers, now, permits,
                   current_model, hist, client>>

\* line 308: the loop takes its next request and translate(&request) runs up
\* to the end of its quota precheck
translate_batch_translate(c) ==
    /\ batch[c].pc = "run"
    /\ call[c].pc = "idle"
    /\ batch' = [batch EXCEPT ![c].i = @ + 1]
    /\ RwLock_write_free(usage_writers)
    /\ LET est == estimate_tokens(batch[c].requests[batch[c].i + 1])
           r == TokenTracker_can_use(usage, now, est)
       IN /\ usage' = r.usage
          /\ hist' = [hist EXCEPT ![c] =
                        IF c \in observed
                        THEN call_found([NoHist EXCEPT
                                    !.exhausted = (remaining(r.usage) = 0),
                                    !.used_start = r.usage.used_today,
                                    !.phases =
                                        <<"QuotaCheck",
                                          IF r.ok THEN "AdmissionWait"
                                          ELSE "Failure">>],
                                hist[c].deep, current_model, usage, now)
                        ELSE NoHist]
          /\ call' = [call EXCEPT ![c] =
                IF r.ok
                THEN [IdleCall EXCEPT !.pc = "acquire"]
                ELSE [IdleCall EXCEPT !.pc = "done",
                                      !.result = QuotaExceededError]]
    /\ UNCHANGED <<observed, upstream, probe, front, config, usage0, usage_writers, now, permits, current_model,
                   client>>

\* lines 308-312: translate() has returned; its result is pushed, and the
\* loop goes on to the next request or results is returned
translate_batch_push(c) ==
    /\ batch[c].pc = "run"
    /\ call[c].pc = "done"
    /\ LET results == push(batch[c].results, call[c].result)
       IN batch' = [batch EXCEPT
            ![c].results = results,
            ![c].served = Append(@, [req |-> batch[c].i,
                                     result |-> call[c].result]),
            ![c].pc = IF batch_more(batch[c].requests, batch[c].i, results)
                      THEN "run" ELSE "done"]
    /\ call' = [call EXCEPT ![c].pc = "idle"]
    /\ UNCHANGED <<observed, upstream, probe, front, config, usage, usage0, usage_writers, now, permits,
                   current_model, hist, client>>

\* the steps of translate()
\* the byte lengths of the texts translate() is called with: the empty
\* text, the longest one and the one a byte shorter
TextLens == {0, MaxTextLen - 1, MaxTextLen}

NextTranslate ==
    \/ \E c \in Callers, len \in TextLens : translate_precheck(c, len)
    \/ \E c \in Callers : translate_acquire(c)
    \/ \E c \in Callers, resp \in Answers : translate_wire(c, resp)
    \/ \E c \in Callers : translate_sleep(c)
    \/ \E c \in Callers : translate_use_tokens(c)
    \/ \E c \in Callers : translate_use_tokens_add(c)
    \/ \E c \in Callers : translate_use_tokens_log(c)
    \/ \E c \in Callers : translate_set_model(c)

\* the steps of the direct TokenTracker calls
NextTracker ==
    \/ \E q \in Clients, t \in 0..MaxTokens : tracker_can_use(q, t)
    \/ \E q \in Clients, t \in 0..MaxTokens : tracker_use_tokens(q, t)
    \/ \E q \in Clients : tracker_use_tokens_add(q)
    \/ \E q \in Clients : tracker_use_tokens_log(q)
    \/ \E q \in Clients : tracker_reset(q)

\* Spec: one translate() caller, every configuration, within one UTC day
Init ==
    \E cfg \in Configs, dl \in {0, 1, MaxLimit} :
        /\ cfg.max_concurrent = 1
        /\ InitWith(cfg, dl, {1}, {}, {1}, "any")

Next == NextTranslate

Spec == Init /\ [][Next]_vars

\* SpecConc: NCalls concurrent translate() callers within one UTC day,
\* max_concurrent = MaxConcurrent, one retry, the stub upstream, and a
\* TranslatorConfig.models the caller of AsyncTranslator::new has filled
\* with one slow and one fast model (lists with several models in a lane
\* are those of Configs and DEFAULT_MODELS)
ConcModels == <<Model(1, "slow", TRUE), Model(2, "fast", TRUE)>>

InitConc ==
    \E cfg \in Configs :
        /\ cfg.models = ConcModels
        /\ cfg.max_concurrent = MaxConcurrent
        /\ cfg.max_retries = 1
        /\ InitWith(cfg, MaxLimit, Callers, {}, {}, "stub")

NextConc == NextTranslate

SpecConc == InitConc /\ [][NextConc]_vars

\* SpecShared: one translate() caller and one direct tracker user share the
\* TokenTracker while the clock runs
InitShared ==
    \E cfg \in Configs, dl \in 0..MaxLimit :
        /\ cfg.models = ConcModels
        /\ cfg.max_concurrent = 1
        /\ InitWith(cfg, dl, {1}, {NCalls + 1}, {}, "stub")

NextShared == Tick \/ NextTranslate \/ NextTracker

SpecShared == InitShared /\ [][NextShared]_vars

\* SpecTracker: the direct tracker users alone, the first of them observed,
\* while the clock runs
InitTracker ==
    \E cfg \in Configs, dl \in 0..MaxLimit :
        /\ cfg.models = ConcModels
        /\ cfg.max_concurrent = 1
        /\ cfg.max_retries = 0
        /\ InitWith(cfg, dl, {}, Clients, {NCalls + 1}, "stub")

NextTracker2 == Tick \/ NextTracker

SpecTracker == InitTracker /\ [][NextTracker2]_vars

\* SpecQuota: NQuotaCalls tasks each call use_tokens(t) once, with the same
\* t > 0, on a tracker that has used_today = u0 of its daily_limit, no day
\* rollover
quota_use_tokens(q) ==
    /\ client[q].pc = "idle"
    /\ tracker_use_tokens(q, client[q].tokens)

InitQuota ==
    \E dl \in 0..(2 * MaxLimit), t \in 1..MaxTokens :
      \E u0 \in 0..dl :
        /\ config = BaseConfig(1, 0, ConcModels)
        /\ observed = {}
        /\ upstream = "stub"
        /\ usage = [daily_limit |-> dl, used_today |-> u0, last_reset |-> 0]
        /\ usage0 = usage
        /\ usage_writers = {}
        /\ now = 0
        /\ permits = 1
        /\ current_model = 1
        /\ call = [c \in Callers |-> [IdleCall EXCEPT !.pc = "off"]]
        /\ hist = [c \in Callers |-> NoHist]
        /\ batch = [c \in Callers |-> NoBatch]
        /\ probe = NoProbe
        /\ front = NoFront
        /\ client = [q \in Clients \cup QuotaCallers |->
                IF q \in QuotaCallers THEN [IdleClient EXCEPT !.tokens = t]
                ELSE [IdleClient EXCEPT !.pc = "off"]]

NextQuota ==
    \/ \E q \in QuotaCallers : quota_use_tokens(q)
    \/ \E q \in QuotaCallers : tracker_use_tokens_add(q)
    \/ \E q \in QuotaCallers : tracker_use_tokens_log(q)

SpecQuota == InitQuota /\ [][NextQuota]_vars

\* SpecNew: AsyncTranslator::new on any TranslatorConfig; nothing is built
\* before it has run
InitNew ==
    \E cfg \in RawConfigs, dl \in 0..MaxLimit :
        /\ config = cfg
        /\ observed = {}
        /\ upstream = "stub"
        /\ usage = TokenUsage_new(0, 0)
        /\ usage0 = TokenUsage_new(dl, 0)
        /\ usage_writers = {}
        /\ now = 0
        /\ permits = 0
        /\ current_model = 0
        /\ call = [c \in Callers |->
                    [IdleCall EXCEPT !.pc = IF c = 1 THEN "new" ELSE "off"]]
        /\ hist = [c \in Callers |-> NoHist]
        /\ batch = [c \in Callers |-> NoBatch]
        /\ probe = NoProbe
        /\ front = NoFront
        /\ client = [q \in Clients \cup QuotaCallers |->
                        [IdleClient EXCEPT !.pc = "off"]]

NextNew == \E c \in Callers : AsyncTranslator_new(c)

SpecNew == InitNew /\ [][NextNew]_vars

\* SpecBatch: one caller of translate_batch, any list of at most MaxBatch
\* requests, one slow and one fast model, one retry, the stub upstream
RequestLists ==
    UNION { [1..n -> 0..MaxTextLen] : n \in 0..MaxBatch }

InitBatch ==
    \E cfg \in Configs, dl \in 0..MaxLimit :
        /\ cfg.models = ConcModels
        /\ cfg.max_concurrent = 1
        /\ cfg.max_retries = 1
        /\ InitWith(cfg, dl, {1}, {}, {}, "stub")

NextBatch ==
    \/ \E c \in Callers, requests \in RequestLists : translate_batch(c, requests)
    \/ \E c \in Callers : translate_batch_translate(c)
    \/ \E c \in Callers : translate_batch_push(c)
    \/ \E c \in Callers : translate_acquire(c)
    \/ \E c \in Callers, resp \in Answers : translate_wire(c, resp)
    \/ \E c \in Callers : translate_sleep(c)
    \/ \E c \in Callers : translate_use_tokens(c)
    \/ \E c \in Callers : translate_use_tokens_add(c)
    \/ \E c \in Callers : translate_use_tokens_log(c)
    \/ \E c \in Callers : translate_set_model(c)

SpecBatch == InitBatch /\ [][NextBatch]_vars

\* SpecAudit: one translate() caller with a deep record, one slow and one
\* fast model, AuditRetries retries, any upstream, within one UTC day
InitAudit ==
    \E dl \in {0, MaxLimit} :
        /\ config = BaseConfig(1, AuditRetries, ConcModels)
        /\ observed = {1}
        /\ upstream = "any"
        /\ usage = TokenUsage_new(dl, 0)
        /\ usage0 = usage
        /\ usage_writers = {}
        /\ now = 0
        /\ permits = 1
        /\ current_model = 1
        /\ call = [c \in Callers |->
                    [IdleCall EXCEPT !.pc = IF c = 1 THEN "idle" ELSE "off"]]
        /\ hist = [c \in Callers |-> [NoHist EXCEPT !.deep = TRUE]]
        /\ batch = [c \in Callers |-> NoBatch]
        /\ probe = NoProbe
        /\ front = NoFront
        /\ client = [q \in Clients \cup QuotaCallers |->
                        [IdleClient EXCEPT !.pc = "off"]]

NextAudit == NextTranslate

SpecAudit == InitAudit /\ [][NextAudit]_vars

\* SpecLive: two translate() callers share one permit; every wire call and
\* every sleep completes, and the semaphore, the RwLock and the Mutex, which
\* are fair (tokio queues their waiters), serve every waiter
LiveCallers == {1, 2}

InitLive ==
    \E cfg \in Configs :
        /\ cfg.models = ConcModels
        /\ cfg.max_concurrent = 1
        /\ cfg.max_retries = 1
        /\ InitWith(cfg, MaxLimit, LiveCallers, {}, LiveCallers, "stub")

NextLive == NextTranslate

FairLive ==
    \A c \in LiveCallers :
        /\ SF_vars(translate_acquire(c))
        /\ WF_vars(\E resp \in Answers : translate_wire(c, resp))
        /\ WF_vars(translate_sleep(c))
        /\ SF_vars(translate_use_tokens(c))
        /\ WF_vars(translate_use_tokens_add(c))
        /\ SF_vars(translate_use_tokens_log(c))
        /\ WF_vars(translate_set_model(c))

SpecLive == InitLive /\ [][NextLive]_vars /\ FairLive

\* SpecWire: send_request's classification of one response, for each
\* response of WireResponses
send_request_probe ==
    /\ probe.pc = "ready"
    /\ probe' = [probe EXCEPT
            !.pc = "done",
            !.output = send_request(probe.input, probe.model)]
    /\ UNCHANGED <<observed, upstream, batch, front, config, usage, usage0,
                   usage_writers, now, permits, current_model, call, hist,
                   client>>

InitWire ==
    \E resp \in WireResponses, i \in 1..Len(ConcModels) :
        /\ config = BaseConfig(1, 0, ConcModels)
        /\ observed = {}
        /\ upstream = "any"
        /\ usage = TokenUsage_new(MaxLimit, 0)
        /\ usage0 = usage
        /\ usage_writers = {}
        /\ now = 0
        /\ permits = 1
        /\ current_model = 1
        /\ call = [c \in Callers |-> [IdleCall EXCEPT !.pc = "off"]]
        /\ hist = [c \in Callers |-> NoHist]
        /\ batch = [c \in Callers |-> NoBatch]
        /\ client = [q \in Clients \cup QuotaCallers |->
                        [IdleClient EXCEPT !.pc = "off"]]
        /\ probe = [pc |-> "ready", op |-> "send_request", input |-> resp,
                    model |-> ConcModels[i], output |-> None]
        /\ front = NoFront

NextWire == send_request_probe

SpecWire == InitWire /\ [][NextWire]_vars

\* SpecLanes: one translate() caller, every model list, one retry per model
InitLanes ==
    \E cfg \in Configs, dl \in {0, MaxLimit} :
        /\ cfg.max_concurrent = 1
        /\ cfg.max_retries = 1
        /\ InitWith(cfg, dl, {1}, {}, {1}, "any")

NextLanes == NextTranslate

SpecLanes == InitLanes /\ [][NextLanes]_vars

\* SpecHold: three translate() callers on one permit or more, one retry,
\* one slow and one fast model, the stub upstream
HoldCallers == {1, 2, 3}

InitHold ==
    \E cfg \in Configs :
        /\ cfg.models = ConcModels
        /\ cfg.max_retries = 1
        /\ InitWith(cfg, MaxLimit, HoldCallers, {}, {}, "stub")

NextHold == NextTranslate

SpecHold == InitHold /\ [][NextHold]_vars

\* Option<&Model>
SomeModel(m) == [some |-> TRUE, model |-> m]
NoModel == [some |-> FALSE, model |-> Model(0, "slow", FALSE)]

RECURSIVE find_from(_, _, _)
\* Iterator::find over models from position i on
find_from(models, id, i) ==
    IF i > Len(models) THEN NoModel
    ELSE IF models[i].id = id THEN SomeModel(models[i])
    ELSE find_from(models, id, i + 1)

\* (a search among the enabled models only)
find_model_enabled(cfg, id) ==
    find_from(SelectSeq(cfg.models, LAMBDA m : m.enabled), id, 1)

\* TranslatorConfig::find_model, config.rs lines 171-173 (and
\* AsyncTranslator::get_model, client.rs lines 331-333)
find_model(cfg, id) == find_from(cfg.models, id, 1)

\* TranslatorConfig::get_enabled_models, config.rs lines 166-168
get_enabled_models(cfg) == SelectSeq(cfg.models, LAMBDA m : m.enabled)

\* AsyncTranslator::get_available_models, client.rs lines 326-328
get_available_models(cfg) == get_enabled_models(cfg)

\* the ids models are configured with (two models may share one), the ids
\* asked for (3 is the id of no model), and the model lists
FindIds == {1, 2}
FindQueries == {1, 2, 3}
FindLists ==
    UNION { [1..n -> [id : FindIds, lane : LaneType, enabled : BOOLEAN]] :
                n \in 0..MaxModels }

\* get_model(id) or get_available_models() is called
config_probe ==
    /\ probe.pc = "ready"
    /\ probe.op \in {"get_model", "get_available_models"}
    /\ probe' = [probe EXCEPT
            !.pc = "done",
            !.output = IF probe.op = "get_model"
                       THEN find_model(config, probe.input)
                       ELSE get_available_models(config)]
    /\ UNCHANGED <<observed, upstream, batch, front, config, usage, usage0,
                   usage_writers, now, permits, current_model, call, hist,
                   client>>

\* SpecFind: get_model(id) and get_available_models() on every model list
InitFind ==
    \E models \in FindLists, op \in {"get_model", "get_available_models"},
       id \in FindQueries :
        /\ (op = "get_available_models" => id = 1)
        /\ config = BaseConfig(1, 0, models)
        /\ observed = {}
        /\ upstream = "any"
        /\ usage = TokenUsage_new(MaxLimit, 0)
        /\ usage0 = usage
        /\ usage_writers = {}
        /\ now = 0
        /\ permits = 1
        /\ current_model = IF Len(models) = 0 THEN 0 ELSE models[1].id
        /\ call = [c \in Callers |-> [IdleCall EXCEPT !.pc = "off"]]
        /\ hist = [c \in Callers |-> NoHist]
        /\ batch = [c \in Callers |-> NoBatch]
        /\ client = [q \in Clients \cup QuotaCallers |->
                        [IdleClient EXCEPT !.pc = "off"]]
        /\ probe = [pc |-> "ready", op |-> op, input |-> id,
                    model |-> 0, output |-> None]
        /\ front = NoFront

NextFind == config_probe

SpecFind == InitFind /\ [][NextFind]_vars

(* ------------- processors/markdown.rs, epub.rs, server/api.rs ---------- *)

\* TranslatorConfig::load (config.rs 99-119) with DEFAULT_MODELS (41-50):
\* the models of AsyncTranslator::from_env, which every front end is built
\* on: one slow model, then four fast ones, all enabled
DEFAULT_MODELS ==
    <<Model(1, "slow", TRUE), Model(2, "fast", TRUE), Model(3, "fast", TRUE),
      Model(4, "fast", TRUE), Model(5, "fast", TRUE)>>

\* the texts a front end is given, the empty list included: 0 is a text of
\* white space only, 1 a text shorter than four bytes (its estimate is 0
\* tokens), 2 a text of MaxTextLen bytes
FrontItems == UNION { [1..n -> {0, 1, 2}] : n \in 0..MaxBatch }

\* the strings under title, description, summary, name and alt of a "---"
\* block (markdown.rs 248-252), in the order the HashMap yields them, each
\* a short text or a long one
FrontFields == UNION { [1..n -> {1, 2}] : n \in 0..MaxFields }

\* what a front end pushes for a text: its translation, or the text itself
Pushed(text, translated) == [text |-> text, translated |-> translated]

\* the loop has taken text k: it was handed to translate() or not (called),
\* translate() returned Ok or Err (ok), and the translation or the text
\* itself was pushed
front_pushed(f, k, called, ok) ==
    [f EXCEPT !.i = k,
              !.out = Append(@, Pushed(f.items[k], called /\ ok)),
              !.submitted = IF called THEN @ \cup {k} ELSE @,
              !.failed = IF called /\ ~ok THEN @ \cup {k} ELSE @]

\* the loop goes on to its next text; after the last one the ePub and HTTP
\* front ends return Ok, and translate_content goes on (lines 159-229):
\* get_link_text slices the content for every link (161-169, 406) and
\* panics off a byte boundary; the reconstruction meets the "---" block
\* first and awaits translate_yaml_frontmatter(..)?, whose parser refuses
\* the block (Err(InvalidFormat), lines 239-242) or takes it, and then
\* every field to translate is handed to translate() (line 255); the
\* slices of the code blocks, links and the rest (188, 202-208, 223) panic
\* off a byte boundary; otherwise Ok(result) is returned
front_next(f) ==
    IF f.i < Len(f.items) THEN [f EXCEPT !.pc = "loop"]
    ELSE IF f.panics = "links"
    THEN [f EXCEPT !.pc = "done", !.result = "panic"]
    ELSE IF f.yaml = "invalid"
    THEN [f EXCEPT !.pc = "done", !.result = "InvalidFormat"]
    ELSE IF f.j < Len(f.fields) THEN [f EXCEPT !.pc = "yaml"]
    ELSE IF f.panics = "rebuild"
    THEN [f EXCEPT !.pc = "done", !.result = "panic"]
    ELSE [f EXCEPT !.pc = "done", !.result = "Ok"]

\* MarkdownProcessor::translate_content, lines 137-142: the extractor runs.
\* It slices the content at char indices (lines 323-391), which panics when
\* one of them is not a byte boundary, before any translate() call;
\* otherwise the segment loop starts
markdown_extract ==
    /\ front.pc = "start"
    /\ front.op = "markdown"
    /\ front' = IF front.panics = "extract"
                THEN [front EXCEPT !.pc = "done", !.result = "panic"]
                ELSE front_next(front)
    /\ UNCHANGED <<observed, upstream, batch, probe, config, usage, usage0,
                   usage_writers, now, permits, current_model, call, hist,
                   client>>

\* server/api.rs translate, lines 228-254: an empty text_list is refused
\* before any translate() call
api_check ==
    /\ front.pc = "start"
    /\ front.op = "api"
    /\ front' = IF Len(front.items) = 0
                THEN [front EXCEPT !.pc = "done", !.result = "invalid_request"]
                ELSE front_next(front)
    /\ UNCHANGED <<observed, upstream, batch, probe, config, usage, usage0,
                   usage_writers, now, permits, current_model, call, hist,
                   client>>

\* EpubProcessor::translate_html_content, lines 113-117: the scan of the
\* HTML starts; with no text between the tags Ok is returned at once
epub_scan ==
    /\ front.pc = "start"
    /\ front.op = "epub"
    /\ front' = front_next(front)
    /\ UNCHANGED <<observed, upstream, batch, probe, config, usage, usage0,
                   usage_writers, now, permits, current_model, call, hist,
                   client>>

\* self.translator.translate(&request).await (markdown.rs 147 and 255,
\* api.rs 262, epub.rs 167) in the front end's task c: translate() runs up
\* to the end of its quota precheck, on the next field of the "---" block
\* or on the next text of the loop, whose byte length is
\* request.text.len(). translate_text returns a text of white space only
\* without this call (epub.rs 158-162)
front_translate(c) ==
    /\ front.pc \in {"loop", "yaml"}
    /\ call[c].pc = "idle"
    /\ LET text == IF front.pc = "yaml" THEN front.fields[front.j + 1]
                   ELSE front.items[front.i + 1]
       IN /\ ~(front.pc = "loop" /\ front.op = "epub" /\ text = 0)
          /\ translate_precheck(c, IF text = 2 THEN MaxTextLen
                                   ELSE IF text = 1 THEN MaxTextLen - 1
                                   ELSE 1)

\* MarkdownProcessor::translate_content, lines 147-156: translate() has
\* returned; on Err the segment itself is pushed and the loop goes on
markdown_segment(c) ==
    /\ front.pc = "loop"
    /\ front.op = "markdown"
    /\ call[c].pc = "done"
    /\ front' = front_next(front_pushed(front, front.i + 1, TRUE,
                                        call[c].result.ok))
    /\ call' = [call EXCEPT ![c].pc = "idle"]
    /\ UNCHANGED <<observed, upstream, batch, probe, config, usage, usage0,
                   usage_writers, now, permits, current_model, hist, client>>

\* translate_yaml_frontmatter, lines 244-275: translate() has returned for
\* one field; on Err the field is kept (255-259); the loop goes on to the
\* next field, and after the last one the block is serialized and
\* translate_content goes on with its reconstruction
markdown_field(c) ==
    /\ front.pc = "yaml"
    /\ call[c].pc = "done"
    /\ front' = front_next([front EXCEPT
            !.j = @ + 1,
            !.inserted = Append(@, Pushed(front.fields[front.j + 1],
                                          call[c].result.ok))])
    /\ call' = [call EXCEPT ![c].pc = "idle"]
    /\ UNCHANGED <<observed, upstream, batch, probe, config, usage, usage0,
                   usage_writers, now, permits, current_model, hist, client>>

\* server/api.rs translate, lines 262-278: translate() has returned; on Err
\* the text itself is pushed and the loop goes on
api_text(c) ==
    /\ front.pc = "loop"
    /\ front.op = "api"
    /\ call[c].pc = "done"
    /\ front' = front_next(front_pushed(front, front.i + 1, TRUE,
                                        call[c].result.ok))
    /\ call' = [call EXCEPT ![c].pc = "idle"]
    /\ UNCHANGED <<observed, upstream, batch, probe, config, usage, usage0,
                   usage_writers, now, permits, current_model, hist, client>>

\* EpubProcessor::translate_html_content / translate_text, lines 104-169:
\* one run of text between tags. A text of white space only is kept without
\* a translate() call (159-162). Otherwise translate() has returned: on Err
\* the ? of line 167 and of lines 123 / 145 returns the error from
\* translate_html_content at once
epub_text(c) ==
    /\ front.pc = "loop"
    /\ front.op = "epub"
    /\ LET k == front.i + 1 IN
        IF front.items[k] = 0
        THEN /\ call[c].pc = "idle"
             /\ front' = front_next(front_pushed(front, k, FALSE, FALSE))
             /\ UNCHANGED call
        ELSE /\ call[c].pc = "done"
             /\ front' =
                    IF call[c].result.ok
                    THEN front_next(front_pushed(front, k, TRUE, TRUE))
                    ELSE [front EXCEPT
                                !.i = k, !.submitted = @ \cup {k},
                                !.failed = @ \cup {k},
                                !.pc = "done", !.result = "Err"]
             /\ call' = [call EXCEPT ![c].pc = "idle"]
    /\ UNCHANGED <<observed, upstream, batch, probe, config, usage, usage0,
                   usage_writers, now, permits, current_model, hist, client>>

\* SpecFront: one front end, built by from_env with MAX_CONCURRENT = 1 and
\* MAX_RETRIES = 1, is given a document or a text_list and works in the
\* first task. A Markdown document starts with a "---" block or not: there
\* is none, serde_yaml::from_str refuses it, or it parses and holds the
\* fields to translate. Its segments are trimmed and never empty
\* (markdown.rs 391-396). The slices of its content stay on byte
\* boundaries, or the first one that does not is taken by the extractor,
\* by get_link_text or by the reconstruction
InitFront ==
    \E op \in {"markdown", "epub", "api"}, items \in FrontItems,
       yaml \in {"none", "invalid", "parsed"}, fields \in FrontFields,
       panics \in {"none", "extract", "links", "rebuild"} :
        /\ op = "markdown" => \A k \in DOMAIN items : items[k] # 0
        /\ op # "markdown" => yaml = "none" /\ panics = "none"
        /\ yaml # "parsed" => fields = <<>>
        /\ config = BaseConfig(1, 1, DEFAULT_MODELS)
        /\ observed = {}
        /\ upstream = "stub"
        /\ usage = TokenUsage_new(MaxLimit * MaxBatch, 0)
        /\ usage0 = usage
        /\ usage_writers = {}
        /\ now = 0
        /\ permits = config.max_concurrent
        /\ current_model = config.models[1].id
        /\ call = [c \in Callers |->
                    IF c = 1 THEN IdleCall
                    ELSE [IdleCall EXCEPT !.pc = "off"]]
        /\ hist = [c \in Callers |-> NoHist]
        /\ batch = [c \in Callers |-> NoBatch]
        /\ client = [q \in Clients \cup QuotaCallers |->
                        [IdleClient EXCEPT !.pc = "off"]]
        /\ probe = NoProbe
        /\ front = [NoFront EXCEPT !.pc = "start", !.op = op, !.items = items,
                                   !.yaml = yaml, !.fields = fields,
                                   !.panics = panics]

NextFront ==
    \/ markdown_extract
    \/ api_check
    \/ epub_scan
    \/ \E c \in Callers : front_translate(c)
    \/ \E c \in Callers : translate_acquire(c)
    \/ \E c \in Callers, resp \in Answers : translate_wire(c, resp)
    \/ \E c \in Callers : translate_sleep(c)
    \/ \E c \in Callers : translate_use_tokens(c)
    \/ \E c \in Callers : translate_use_tokens_add(c)
    \/ \E c \in Callers : translate_use_tokens_log(c)
    \/ \E c \in Callers : translate_set_model(c)
    \/ \E c \in Callers : markdown_segment(c)
    \/ \E c \in Callers : markdown_field(c)
    \/ \E c \in Callers : api_text(c)
    \/ \E c \in Callers : epub_text(c)

SpecFront == InitFront /\ [][NextFront]_vars

\* SpecReserve: two translate() callers whose texts are each estimated at
\* one token or more, and a direct tracker user calling reset(), share the
\* TokenTracker while the clock runs; one slow and one fast model, no retry
ReserveCallers == {1, 2}

InitReserve ==
    \E cfg \in Configs, dl \in {1, MaxLimit} :
        /\ cfg.models = ConcModels
        /\ cfg.max_concurrent = 1
        /\ cfg.max_retries = 0
        /\ InitWith(cfg, dl, ReserveCallers, Clients, {}, "stub")

NextReserve ==
    \/ Tick
    \/ \E c \in Callers : translate_precheck(c, MaxTextLen)
    \/ \E c \in Callers : translate_acquire(c)
    \/ \E c \in Callers, resp \in Answers : translate_wire(c, resp)
    \/ \E c \in Callers : translate_use_tokens(c)
    \/ \E c \in Callers : translate_use_tokens_add(c)
    \/ \E c \in Callers : translate_use_tokens_log(c)
    \/ \E c \in Callers : translate_set_model(c)
    \/ \E q \in Clients : tracker_reset(q)

SpecReserve == InitReserve /\ [][NextReserve]_vars

\* SpecFree: the three callers of SpecHold on one permit, under the
\* scheduling of SpecLive
InitFree ==
    \E cfg \in Configs :
        /\ cfg.models = ConcModels
        /\ cfg.max_concurrent = 1
        /\ cfg.max_retries = 1
        /\ InitWith(cfg, MaxLimit, HoldCallers, {}, {}, "stub")

FairFree ==
    \A c \in HoldCallers :
        /\ SF_vars(translate_acquire(c))
        /\ WF_vars(\E resp \in Answers : translate_wire(c, resp))
        /\ WF_vars(translate_sleep(c))
        /\ SF_vars(translate_use_tokens(c))
        /\ WF_vars(translate_use_tokens_add(c))
        /\ SF_vars(translate_use_tokens_log(c))
        /\ WF_vars(translate_set_model(c))

NextFree == NextTranslate

SpecFree == InitFree /\ [][NextFree]_vars /\ FairFree

\* SpecCurrent: two translate() callers, every model list, no retry, the
\* stub upstream
InitCurrent ==
    \E cfg \in Configs :
        /\ cfg.max_concurrent = 1
        /\ cfg.max_retries = 0
        /\ InitWith(cfg, MaxLimit, LiveCallers, {}, {}, "stub")

NextCurrent ==
    \/ \E c \in Callers, len \in TextLens : translate_precheck(c, len)
    \/ \E c \in Callers : translate_acquire(c)
    \/ \E c \in Callers, resp \in Answers : translate_wire(c, resp)
    \/ \E c \in Callers : translate_use_tokens(c)
    \/ \E c \in Callers : translate_use_tokens_add(c)
    \/ \E c \in Callers : translate_use_tokens_log(c)
    \/ \E c \in Callers : translate_set_model(c)

SpecCurrent == InitCurrent /\ [][NextCurrent]_vars

\* SpecMarker: one translate() caller with a deep record, one slow and one
\* fast model, one retry, the stub upstream, while the clock runs
InitMarker ==
    \E dl \in {0, MaxLimit} :
        /\ config = BaseConfig(1, 1, ConcModels)
        /\ observed = {1}
        /\ upstream = "stub"
        /\ usage = TokenUsage_new(dl, 0)
        /\ usage0 = usage
        /\ usage_writers = {}
        /\ now = 0
        /\ permits = 1
        /\ current_model = 1
        /\ call = [c \in Callers |->
                    [IdleCall EXCEPT !.pc = IF c = 1 THEN "idle" ELSE "off"]]
        /\ hist = [c \in Callers |-> [NoHist EXCEPT !.deep = TRUE]]
        /\ batch = [c \in Callers |-> NoBatch]
        /\ probe = NoProbe
        /\ front = NoFront
        /\ client = [q \in Clients \cup QuotaCallers |->
                        [IdleClient EXCEPT !.pc = "off"]]

NextMarker == Tick \/ NextTranslate

SpecMarker == InitMarker /\ [][NextMarker]_vars

\* SpecLow: one direct tracker user, observed, uses tokens of a tracker with
\* daily_limit 0 or LowLimit, one at a time or all but one at once, and
\* calls reset(), is_low(), remaining() and get_stats(), while the clock runs
InitLow ==
    \E cfg \in Configs, dl \in {0, LowLimit} :
        /\ cfg.models = ConcModels
        /\ cfg.max_concurrent = 1
        /\ cfg.max_retries = 0
        /\ InitWith(cfg, dl, {}, {NCalls + 1}, {NCalls + 1}, "stub")

NextLow ==
    \/ Tick
    \/ \E q \in Clients, t \in {1, LowLimit - 1} : tracker_use_tokens(q, t)
    \/ \E q \in Clients : tracker_use_tokens_add(q)
    \/ \E q \in Clients : tracker_use_tokens_log(q)
    \/ \E q \in Clients : tracker_reset(q)
    \/ \E q \in Clients : tracker_is_low(q)
    \/ \E q \in Clients : tracker_remaining(q)
    \/ \E q \in Clients : tracker_get_stats(q)

SpecLow == InitLow /\ [][NextLow]_vars

\* SpecDay: on a new tracker, NQuotaCalls tasks each call can_use(t) or
\* use_tokens(t) once, with any t, within one UTC day
day_can_use(q, tokens) ==
    /\ client[q].pc = "idle"
    /\ tracker_can_use(q, tokens)

day_use_tokens(q, tokens) ==
    /\ client[q].pc = "idle"
    /\ tracker_use_tokens(q, tokens)

InitDay ==
    \E dl \in 0..MaxLimit :
        /\ config = BaseConfig(1, 0, ConcModels)
        /\ observed = QuotaCallers
        /\ upstream = "stub"
        /\ usage = TokenUsage_new(dl, 0)
        /\ usage0 = usage
        /\ usage_writers = {}
        /\ now = 0
        /\ permits = 1
        /\ current_model = 1
        /\ call = [c \in Callers |-> [IdleCall EXCEPT !.pc = "off"]]
        /\ hist = [c \in Callers |-> NoHist]
        /\ batch = [c \in Callers |-> NoBatch]
        /\ probe = NoProbe
        /\ front = NoFront
        /\ client = [q \in Clients \cup QuotaCallers |->
                IF q \in QuotaCallers THEN IdleClient
                ELSE [IdleClient EXCEPT !.pc = "off"]]

NextDay ==
    \/ \E q \in QuotaCallers, t \in 0..MaxTokens : day_can_use(q, t)
    \/ \E q \in QuotaCallers, t \in 0..MaxTokens : day_use_tokens(q, t)
    \/ \E q \in QuotaCallers : tracker_use_tokens_add(q)
    \/ \E q \in QuotaCallers : tracker_use_tokens_log(q)

SpecDay == InitDay /\ [][NextDay]_vars

(* ------------------------------ claims -------------------------------- *)

\* wire calls in flight
InFlight == Cardinality({c \in Callers : call[c].pc = "wire"})

\* C1 (SpecConc): at no instant are more than config.max_concurrent wire
\* calls (send_request) in flight, however many translate() calls run.
C1_AdmissionCeiling == InFlight <= config.max_concurrent

\* max_concurrent >= 2 wire calls in flight while another caller waits for a
\* permit
C1_Witness ==
    /\ config.max_concurrent >= 2
    /\ InFlight = config.max_concurrent
    /\ \E c \in Callers : call[c].pc = "acquire"

\* the budget left when the use_tokens calls start, and the size of each call
QuotaR == remaining(usage0)
QuotaT == client[NCalls + NClients + 1].tokens
QuotaOk == {q \in QuotaCallers : client[q].pc = "done" /\ client[q].ok}
QuotaFailed == {q \in QuotaCallers : client[q].pc = "done" /\ ~client[q].ok}

\* C2 (SpecQuota): N concurrent use_tokens(t), t > 0, on a tracker with
\* budget R left: used_today never grows by more than R, and when R < N*t
\* and all calls have returned, exactly floor(R/t) succeeded, the others
\* failed, and used_today has grown by floor(R/t)*t.
C2_QuotaAtomicity ==
    /\ usage.used_today - usage0.used_today <= QuotaR
    /\ usage.used_today >= usage0.used_today
    /\ Cardinality(QuotaOk) * QuotaT <= QuotaR
    /\ (QuotaR < NQuotaCalls * QuotaT
            /\ \A q \in QuotaCallers : client[q].pc = "done")
        => /\ Cardinality(QuotaOk) = QuotaR \div QuotaT
           /\ Cardinality(QuotaFailed) = NQuotaCalls - (QuotaR \div QuotaT)
           /\ usage.used_today - usage0.used_today
                    = (QuotaR \div QuotaT) * QuotaT

\* all calls have returned, the budget was short and not a multiple of t,
\* some call succeeded and some call failed
C2_Witness ==
    /\ \A q \in QuotaCallers : client[q].pc = "done"
    /\ QuotaR < NQuotaCalls * QuotaT
    /\ QuotaR % QuotaT # 0
    /\ QuotaOk # {}
    /\ QuotaFailed # {}

\* the enabled models of the slow lane
SlowIds == { get_models_by_lane(config, "slow")[i].id :
                i \in 1..Len(get_models_by_lane(config, "slow")) }

\* C3 (Spec), as claimed: a translate() call whose precheck finds the quota
\* exhausted (remaining = 0) ends with QuotaExceededError, issues no wire
\* call and acquires no permit, whatever the length of its text.
C3_QuotaShortCircuit ==
    \A c \in Callers :
        hist[c].exhausted =>
            /\ call[c].pc = "done"
            /\ call[c].result = QuotaExceededError
            /\ hist[c].wires = 0
            /\ ~call[c].permit

\* C4 (Spec): no wire call goes to a fast-lane model before the run of every
\* enabled slow-lane model has ended, and a call that ends after a fast-lane
\* model answered returns that model's result.
C4_LaneFallbackOrdering ==
    \A c \in Callers :
        /\ (call[c].pc \in {"wire", "sleep"} /\ call[c].lane = "fast")
                => SlowIds \subseteq hist[c].tried
        /\ (call[c].pc = "done" /\ hist[c].last_run.ok
                /\ hist[c].last_run.lane = "fast")
                => /\ call[c].result.ok
                   /\ call[c].result.model_used = hist[c].last_run.model
                   /\ call[c].result.model_used \notin SlowIds
                   /\ SlowIds \subseteq hist[c].tried

\* a call returned a fast-lane result after its slow lane, with a model in
\* it, had failed
C4_Witness ==
    \E c \in Callers :
        /\ call[c].pc = "done"
        /\ call[c].result.ok
        /\ hist[c].last_run.lane = "fast"
        /\ SlowIds # {}
        /\ hist[c].slow_err = AllFailed("slow")

\* C5 (Spec): a translate_with_model run never issues more than
\* max_retries + 1 wire calls, and a run that ended in failure without any
\* QuotaExceededError issued exactly max_retries + 1.
C5_RetryBound ==
    \A c \in Callers :
        /\ hist[c].run_wires <= config.max_retries + 1
        /\ hist[c].last_run.wires <= config.max_retries + 1
        /\ (hist[c].last_run.ended /\ ~hist[c].last_run.ok
                /\ ~hist[c].last_run.quota)
                => hist[c].last_run.wires = config.max_retries + 1

\* with max_retries >= 1 a model failed all its attempts and the lane has
\* moved to its next model
C5_Witness ==
    \E c \in Callers :
        /\ config.max_retries >= 1
        /\ call[c].pc = "wire"
        /\ call[c].idx = 2
        /\ hist[c].last_run.ended
        /\ ~hist[c].last_run.quota
        /\ hist[c].last_run.wires = config.max_retries + 1

\* callers holding a permit
Holders == {c \in Callers : call[c].permit}

\* C6 (SpecConc): permits are neither lost nor made: the available permits
\* and the permits held add up to max_concurrent, and a caller outside
\* translate() holds none; so with no call in progress all are available.
C6_NoPermitLeak ==
    /\ permits + Cardinality(Holders) = config.max_concurrent
    /\ \A c \in Callers : call[c].pc \in {"idle", "done", "acquire"}
                            => ~call[c].permit
    /\ (\A c \in Callers : call[c].pc \in {"idle", "done"})
            => permits = config.max_concurrent

\* no call in progress after calls have ended on each exit path: a slow-lane
\* success, a fast-lane success, both lanes failed
C6_Witness ==
    /\ \A c \in Callers : call[c].pc = "done"
    /\ permits = config.max_concurrent
    /\ \E c \in Callers : call[c].result.ok /\ call[c].result.model_used = 1
    /\ \E c \in Callers : call[c].result.ok /\ call[c].result.model_used = 2
    /\ \E c \in Callers : call[c].result = AllFailed("slow")

\* C7 (SpecShared): in every state reached by can_use, use_tokens, reset,
\* day rollover and the bookkeeping of translate(), in any interleaving,
\* used_today <= daily_limit and remaining() = daily_limit - used_today.
C7_QuotaInvariant ==
    /\ usage.used_today <= usage.daily_limit
    /\ remaining(usage) = usage.daily_limit - usage.used_today
    /\ remaining(usage) >= 0

\* on a later day the budget is used up to the limit: the translate() call
\* has booked its tokens and the direct use_tokens call was refused
C7_Witness ==
    /\ now >= TicksPerDay
    /\ usage.daily_limit > 0
    /\ usage.used_today = usage.daily_limit
    /\ date_naive(usage.last_reset) = date_naive(now)
    /\ \E c \in Callers : call[c].pc = "done" /\ call[c].result.ok
    /\ \E q \in Clients : /\ client[q].pc = "done"
                          /\ client[q].op = "use_tokens"
                          /\ client[q].tokens > 0
                          /\ ~client[q].ok

\* C8 (SpecTracker): a can_use(t) or use_tokens(t) call that finds the date
\* of last_reset different from today's, with used_today > 0, sets
\* used_today to 0 and last_reset to now before it evaluates t, so t is
\* accepted exactly when t <= daily_limit.
C8_DayRollover ==
    \A q \in Clients :
        (client[q].op \in {"can_use", "use_tokens"} /\ client[q].stale
                /\ client[q].used_before > 0)
            => /\ client[q].used_eval = 0
               /\ client[q].reset_eval = client[q].at
               /\ client[q].ok = (client[q].tokens <= usage.daily_limit)

\* after a day change a use_tokens(daily_limit) call was accepted although
\* tokens had been used the day before
C8_Witness ==
    \E q \in Clients :
        /\ client[q].pc = "done"
        /\ client[q].op = "use_tokens"
        /\ client[q].stale
        /\ client[q].used_before > 0
        /\ client[q].tokens = usage.daily_limit
        /\ client[q].ok
        /\ usage.used_today = usage.daily_limit

\* C9 (Spec): a call in which both lanes failed returns the slow lane's
\* error, not the fast lane's.
C9_SlowErrorReturned ==
    \A c \in Callers :
        (call[c].pc = "done" /\ hist[c].fast_err # None)
            => /\ call[c].result = hist[c].slow_err
               /\ call[c].result # hist[c].fast_err
               /\ call[c].result.detail \in
                    {NoModels("slow").detail, AllFailed("slow").detail}

\* both lanes had a model, every wire call failed, the call has returned
C9_Witness ==
    \E c \in Callers :
        /\ call[c].pc = "done"
        /\ hist[c].slow_err = AllFailed("slow")
        /\ hist[c].fast_err = AllFailed("fast")

\* C10 (Spec), as claimed: once a wire call of a translate() call has answered
\* QuotaExceededError, that call issues no further wire call and does not
\* return a success.
C10_QuotaStopsAll ==
    \A c \in Callers :
        hist[c].quota_seen =>
            /\ ~hist[c].wire_after_quota
            /\ call[c].pc \notin {"wire", "sleep", "use_tokens_wait",
                                  "use_tokens_add", "use_tokens_log", "set_model"}
            /\ (call[c].pc = "done" => ~call[c].result.ok)

\* C10 (Spec), amended: a wire call that answers QuotaExceededError is the
\* last wire call of its translate_with_model run: the model is not retried.
C10_QuotaEndsModelRun ==
    \A c \in Callers :
        /\ ~hist[c].run_after_quota
        /\ hist[c].run_quota => call[c].pc \notin {"wire", "sleep"}
        /\ (hist[c].last_run.ended /\ hist[c].last_run.quota)
                => ~hist[c].last_run.ok

\* with max_retries >= 1 a model answered QuotaExceededError on its first
\* attempt, its run ended there and the call went on to another model
C10_Witness ==
    \E c \in Callers :
        /\ config.max_retries >= 1
        /\ hist[c].last_run.quota
        /\ hist[c].last_run.wires = 1
        /\ call[c].pc = "wire"
        /\ hist[c].wire_after_quota

\* C11 (Spec), as claimed: a call that returned a success with tokens_used = k
\* has added exactly k to used_today, and a call that failed has added nothing.
C11_PostSuccessAccounting ==
    \A c \in Callers :
        call[c].pc = "done" =>
            usage.used_today = hist[c].used_start
                + (IF call[c].result.ok THEN call[c].result.tokens_used ELSE 0)

\* C11 (Spec), amended: a call that returned a success with tokens_used = k
\* has added exactly k to used_today when k fitted the budget left, and
\* nothing when it did not; before the bookkeeping, and in a call that
\* failed, the wire attempts have added nothing.
C11_AccountingWhenAccepted ==
    \A c \in Callers :
        /\ call[c].pc \in {"acquire", "wire", "sleep", "use_tokens_wait"}
                => usage.used_today = hist[c].used_start
        /\ (call[c].pc = "done" /\ ~call[c].result.ok)
                => usage.used_today = hist[c].used_start
        /\ (call[c].pc = "done" /\ call[c].result.ok)
                => usage.used_today = hist[c].used_start
                    + (IF call[c].result.tokens_used
                            <= usage.daily_limit - hist[c].used_start
                       THEN call[c].result.tokens_used ELSE 0)

\* a call returned a success with tokens_used > 0 after a failed wire
\* attempt, and used_today has grown by tokens_used
C11_Witness ==
    \E c \in Callers :
        /\ call[c].pc = "done"
        /\ call[c].result.ok
        /\ call[c].result.tokens_used > 0
        /\ hist[c].wires >= 2
        /\ usage.used_today = hist[c].used_start + call[c].result.tokens_used

\* C12 (Spec): when the bookkeeping use_tokens(tokens_used) is refused, the
\* call goes on to return the successful result of the wire call, with more
\* tokens_used than the budget left, and used_today stays as it was.
C12_TrackingFailureNotPropagated ==
    \A c \in Callers :
        hist[c].tracked = "failed" =>
            /\ call[c].pc \in {"set_model", "done"}
            /\ usage.used_today = hist[c].used_start
            /\ call[c].pc = "set_model" =>
                    /\ call[c].trans_result.ok
                    /\ call[c].trans_result.tokens_used > remaining(usage)
            /\ call[c].pc = "done" =>
                    /\ call[c].result.ok
                    /\ call[c].result.model_used = hist[c].last_run.model
                    /\ call[c].result.tokens_used > remaining(usage)

\* a call has returned a success although its tokens were refused, on a
\* budget partly used
C12_Witness ==
    \E c \in Callers :
        /\ call[c].pc = "done"
        /\ hist[c].tracked = "failed"
        /\ call[c].result.ok
        /\ usage.used_today > 0
        /\ remaining(usage) > 0

\* the enabled models in the order translate() tries them
TryOrder ==
    get_models_by_lane(config, "slow") \o get_models_by_lane(config, "fast")

\* C15 (Spec): a call returns either a failure that carries no result, or
\* a result whose model_used is the enabled model whose wire call succeeded,
\* the first model in the order (slow lane, then fast lane, each in
\* configured order) whose run succeeded: the runs of exactly the models up
\* to it have ended, and no run succeeded before it.
C15_FirstSuccessReturned ==
    \A c \in Callers :
        /\ (call[c].pc \in {"wire", "sleep"} /\ hist[c].last_run.ended)
                => ~hist[c].last_run.ok
        /\ (call[c].pc = "done" /\ ~call[c].result.ok)
                => /\ call[c].result.model_used = 0
                   /\ call[c].result.tokens_used = 0
                   /\ call[c].result.kind \in {"QuotaExceededError", "ConfigError"}
        /\ (call[c].pc = "done" /\ call[c].result.ok)
                => /\ call[c].result.kind = "Ok"
                   /\ hist[c].last_run.ok
                   /\ hist[c].last_run.model = call[c].result.model_used
                   /\ \E p \in 1..Len(TryOrder) :
                        /\ TryOrder[p].id = call[c].result.model_used
                        /\ TryOrder[p].enabled
                        /\ hist[c].tried = {TryOrder[i].id : i \in 1..p}

\* the second of two slow-lane models answered after the first had failed
C15_Witness ==
    \E c \in Callers :
        /\ call[c].pc = "done"
        /\ call[c].result.ok
        /\ call[c].result.model_used = 2
        /\ hist[c].tried = {1, 2}
        /\ Len(get_models_by_lane(config, "slow")) = 2

\* the ids of a list of models
IdsOf(models) == {models[i].id : i \in 1..Len(models)}

\* C16 (Spec): get_models_by_lane(lane) holds exactly the models of
\* config.models that are enabled and of that lane, in their configured
\* order, and a lane attempt sends its wire calls to them in that order.
C16_ModelsByLane ==
    /\ \A lane \in LaneType :
        LET r == get_models_by_lane(config, lane)
            n == Len(config.models)
        IN /\ \A i \in 1..Len(r) :
                /\ r[i].lane = lane
                /\ r[i].enabled
                /\ r[i].id \in 1..n
                /\ config.models[r[i].id] = r[i]
           /\ \A j \in 1..n :
                (config.models[j].lane = lane /\ config.models[j].enabled)
                    => \E i \in 1..Len(r) : r[i] = config.models[j]
           /\ \A i, k \in 1..Len(r) : i < k => r[i].id < r[k].id
    /\ \A c \in Callers :
        call[c].pc \in {"wire", "sleep"} =>
            LET r == get_models_by_lane(config, call[c].lane)
            IN /\ call[c].idx \in 1..Len(r)
               /\ hist[c].tried \cap IdsOf(r)
                    = {r[i].id : i \in 1..(call[c].idx - 1)}
               /\ call[c].idx > 1
                    => hist[c].last_run.model = r[call[c].idx - 1].id

\* a disabled model is skipped: the fast lane's wire call goes to the second
\* configured model after the slow lane was found empty
C16_Witness ==
    \E c \in Callers :
        /\ Len(config.models) = 2
        /\ ~config.models[1].enabled
        /\ config.models[1].lane = "fast"
        /\ config.models[2].lane = "fast"
        /\ config.models[2].enabled
        /\ call[c].pc = "wire"
        /\ call[c].lane = "fast"
        /\ call[c].idx = 1

\* C20 (Spec): a wire call that answers QuotaExceededError is the last wire
\* call of its translate_with_model run, however many attempts were left,
\* and the run returns QuotaExceededError.
C20_QuotaAbortsRetryLoop ==
    \A c \in Callers :
        /\ ~hist[c].run_after_quota
        /\ hist[c].run_quota => call[c].pc = "done"
        /\ (hist[c].last_run.ended /\ hist[c].last_run.quota)
                => /\ hist[c].last_run.quota_err
                   /\ ~hist[c].last_run.ok
                   /\ hist[c].last_run.wires <= config.max_retries + 1
        /\ (hist[c].last_run.ended
                /\ hist[c].last_run.quota_err)
                => hist[c].last_run.quota

\* with max_retries >= 1 a run ended with QuotaExceededError after a single
\* wire call and the call has returned
C20_Witness ==
    \E c \in Callers :
        /\ config.max_retries >= 1
        /\ call[c].pc = "done"
        /\ hist[c].last_run.ended
        /\ hist[c].last_run.quota_err
        /\ hist[c].last_run.wires = 1

\* C13 (SpecTracker): use_tokens(t) succeeds, adding exactly t to
\* used_today, iff remaining() >= t after the reset-if-needed step;
\* otherwise it fails and leaves used_today, daily_limit and last_reset as
\* that step left them.
C13_UseTokensOutcome ==
    /\ usage.daily_limit = usage0.daily_limit
    /\ \A q \in Clients \cap observed :
        (client[q].op = "use_tokens"
            /\ client[q].pc \in {"use_tokens_add", "use_tokens_log", "done"})
        => LET rolled == date_naive(client[q].at)
                            # date_naive(client[q].reset_before)
               used1 == IF rolled THEN 0 ELSE client[q].used_before
               reset1 == IF rolled THEN client[q].at
                         ELSE client[q].reset_before
           IN /\ client[q].used_eval = used1
              /\ client[q].reset_eval = reset1
              /\ client[q].ok = (usage.daily_limit - used1 >= client[q].tokens)
              /\ ~client[q].ok
                    => /\ client[q].pc = "done"
                       /\ client[q].used_after = used1
              /\ (client[q].ok /\ client[q].pc = "use_tokens_add")
                    => /\ usage.used_today = used1
                       /\ usage.last_reset = reset1
              /\ (client[q].ok /\ client[q].pc \in {"use_tokens_log", "done"})
                    => client[q].used_after = used1 + client[q].tokens

\* on a new day a use_tokens(t) with t above daily_limit was refused after
\* the reset of the tokens used the day before
C13_Witness ==
    \E q \in Clients \cap observed :
        /\ client[q].op = "use_tokens"
        /\ client[q].pc = "done"
        /\ ~client[q].ok
        /\ client[q].stale
        /\ client[q].used_before > 0
        /\ client[q].used_eval = 0
        /\ usage.used_today = 0

\* the tasks whose use_tokens call has booked its tokens
Booked ==
    {q \in QuotaCallers : /\ client[q].op = "use_tokens"
                          /\ client[q].ok
                          /\ client[q].pc \in {"use_tokens_log", "done"}}

RECURSIVE SumTokens(_)
\* the tokens of the calls of the tasks of Q, added up
SumTokens(Q) ==
    IF Q = {} THEN 0
    ELSE LET q == CHOOSE x \in Q : TRUE
         IN client[q].tokens + SumTokens(Q \ {q})

\* C14 (SpecDay): can_use(t) is true iff t <= daily_limit - used_today and
\* leaves used_today alone; after successful use_tokens calls totalling S,
\* remaining() = daily_limit - S.
C14_CanUseAndRemaining ==
    /\ remaining(usage) = usage.daily_limit - SumTokens(Booked)
    /\ SumTokens(Booked) <= usage.daily_limit
    /\ \A q \in QuotaCallers :
        client[q].op = "can_use"
            => /\ client[q].ok
                    = (client[q].tokens
                            <= usage.daily_limit - client[q].used_before)
               /\ client[q].used_eval = client[q].used_before
               /\ client[q].used_after = client[q].used_before

\* a budget used exactly down to 0 by two use_tokens calls, after which
\* can_use(t) with t > 0 was false
C14_Witness ==
    /\ usage.daily_limit > 0
    /\ remaining(usage) = 0
    /\ Cardinality({q \in Booked : client[q].tokens > 0}) >= 2
    /\ \E q \in QuotaCallers :
            /\ client[q].op = "can_use"
            /\ client[q].tokens > 0
            /\ ~client[q].ok
            /\ client[q].used_before = usage.daily_limit

\* C19 (SpecLow): reset() sets used_today to 0 and last_reset to now whatever
\* the state before; is_low() is true iff remaining() < daily_limit / 10 in
\* integer division, so on a usage as reset() leaves it is_low() is false.
C19_ResetAndIsLow ==
    /\ \A q \in Clients \cap observed :
        /\ client[q].op = "reset"
            => /\ client[q].pc = "done"
               /\ client[q].used_eval = 0
               /\ client[q].reset_eval = client[q].at
        /\ client[q].op = "is_low"
            => /\ client[q].ok
                    = (\E k \in 0..usage.daily_limit :
                        /\ 10 * k <= usage.daily_limit
                        /\ usage.daily_limit - client[q].used_before < k)
               /\ client[q].used_before = 0 => ~client[q].ok
    /\ (\E q \in Clients \cap observed :
            /\ client[q].op = "reset"
            /\ usage.used_today = client[q].used_eval
            /\ usage.last_reset = client[q].reset_eval)
        => ~is_low(usage)

\* is_low() was false on a usage that only reset() can have left: nothing
\* used, last_reset later than the start but on the same day
C19_Witness ==
    \E q \in Clients \cap observed :
        /\ client[q].op = "is_low"
        /\ ~client[q].ok
        /\ usage.daily_limit = LowLimit
        /\ client[q].used_before = 0
        /\ client[q].reset_before > 0
        /\ date_naive(client[q].reset_before) = date_naive(0)

\* C17 (SpecNew): validate(), and with it AsyncTranslator::new, fails iff
\* api_key is empty, api_endpoint is empty, max_concurrent = 0 or
\* max_rps <= 0; an empty model list alone does not make it fail.
C17_ValidationFailsIff ==
    \A c \in Callers :
        call[c].pc \in {"idle", "failed"} =>
            /\ (call[c].pc = "failed")
                    = \/ config.api_key = ""
                      \/ config.api_endpoint = ""
                      \/ config.max_concurrent = 0
                      \/ config.max_rps <= 0
            /\ call[c].pc = "failed"
                    => /\ call[c].result.kind = "InternalError"
                       /\ permits = 0
            /\ call[c].pc = "idle"
                    => /\ permits = config.max_concurrent
                       /\ usage = usage0

\* a translator was built from a configuration without models
C17_Witness ==
    \E c \in Callers :
        /\ call[c].pc = "idle"
        /\ Len(config.models) = 0
        /\ permits = config.max_concurrent
        /\ current_model = 0

\* C18 (SpecBatch): translate_batch returns one result per request, the k-th
\* being what translate() returned for the k-th request, and a failed
\* request does not keep translate() from being called for the later ones.
C18_BatchIndependent ==
    \A c \in Callers :
        /\ Len(batch[c].results) <= batch[c].i
        /\ batch[c].i <= Len(batch[c].requests)
        /\ Len(batch[c].served) = Len(batch[c].results)
        /\ \A k \in 1..Len(batch[c].results) :
            /\ batch[c].served[k].req = k
            /\ batch[c].results[k] = batch[c].served[k].result
            /\ estimate_tokens(batch[c].requests[k]) > usage.daily_limit
                    => batch[c].results[k] = QuotaExceededError
            /\ estimate_tokens(batch[c].requests[k]) = 0
                    => batch[c].results[k] # QuotaExceededError
        /\ batch[c].pc = "done"
                => /\ Len(batch[c].results) = Len(batch[c].requests)
                   /\ batch[c].i = Len(batch[c].requests)

\* a batch has returned with its first request refused by the quota
\* precheck and its last request translated
C18_Witness ==
    \E c \in Callers :
        /\ batch[c].pc = "done"
        /\ Len(batch[c].requests) = MaxBatch
        /\ batch[c].results[1] = QuotaExceededError
        /\ batch[c].results[MaxBatch].ok


\* C21 (SpecLanes): once a wire call of a translate() call has succeeded, that
\* call issues no further wire call: it is on its way to return that result,
\* with no retry pending, no later model and no fast lane after a slow-lane
\* success.
C21_FirstSuccessWins ==
    \A c \in Callers :
        /\ ~hist[c].wire_after_ok
        /\ hist[c].ok_seen
            => /\ call[c].pc \in {"use_tokens_wait", "use_tokens_add",
                                  "use_tokens_log", "set_model", "done"}
               /\ hist[c].last_run.ok
               /\ hist[c].wires >= 1
               /\ hist[c].last_run.lane = "slow" => hist[c].slow_err = None
               /\ hist[c].fast_err = None
               /\ call[c].pc = "done"
                    => /\ call[c].result.ok
                       /\ call[c].result.model_used = hist[c].last_run.model

\* a slow-lane model answered on its first attempt although retries were
\* left and another model was configured after it, and the call returned
\* after that single wire call
C21_Witness ==
    \E c \in Callers :
        /\ call[c].pc = "done"
        /\ hist[c].ok_seen
        /\ hist[c].wires = 1
        /\ config.max_retries >= 1
        /\ Len(get_models_by_lane(config, "slow")) >= 1
        /\ Len(TryOrder) = 2
        /\ hist[c].last_run.lane = "slow"


\* the error a lane attempt has ended with, None while it has not failed
LaneErr(c, lane) == IF lane = "slow" THEN hist[c].slow_err ELSE hist[c].fast_err

\* C22 (SpecLanes): a lane without enabled model fails with ConfigError and no
\* wire call goes to it; a lane with enabled models fails only after the
\* run of each of them has ended, and then with ConfigError whatever the
\* errors of the models were.
C22_LaneFailsWithConfigError ==
    \A c \in Callers :
        /\ \A lane \in LaneType :
            LET ids == IdsOf(get_models_by_lane(config, lane))
                err == LaneErr(c, lane)
            IN /\ err # None
                    => /\ err.kind = "ConfigError"
                       /\ ids = {} => err = NoModels(lane)
                       /\ ids # {}
                            => /\ err = AllFailed(lane)
                               /\ ids \subseteq hist[c].tried
                               /\ hist[c].wires >= Cardinality(ids)
               /\ ids = {}
                    => /\ call[c].pc \in {"wire", "sleep"} => call[c].lane # lane
                       /\ hist[c].last_run.ended => hist[c].last_run.lane # lane
        /\ TryOrder = <<>> => hist[c].wires = 0
        /\ hist[c].tried \subseteq IdsOf(TryOrder)

\* the slow lane had no enabled model and failed at once; the fast lane
\* went through both its models, the last of which ended with
\* QuotaExceededError, and failed with ConfigError
C22_Witness ==
    \E c \in Callers :
        /\ call[c].pc = "done"
        /\ hist[c].slow_err = NoModels("slow")
        /\ hist[c].fast_err = AllFailed("fast")
        /\ Len(get_models_by_lane(config, "fast")) = 2
        /\ hist[c].tried = {1, 2}
        /\ hist[c].last_run.quota_err


\* C23 (SpecAudit): a translate_with_model run that fails returns the error
\* of the last wire call it made; after max_retries + 1 failed attempts that
\* is the error of attempt max_retries, not that of attempt 0.
C23_LastErrorReturned ==
    \A c \in Callers :
        (hist[c].last_run.ended /\ ~hist[c].last_run.ok)
            => /\ hist[c].last_run.err # None
               /\ hist[c].last_run.err = hist[c].last_run.last_attempt_err
               /\ hist[c].last_run.wires = 1
                    => hist[c].last_run.err = hist[c].last_run.first_err

\* a run made all its max_retries + 1 attempts, the last failed with another
\* error than the first, and the run returned the last one
C23_Witness ==
    \E c \in Callers :
        /\ hist[c].last_run.ended
        /\ ~hist[c].last_run.ok
        /\ hist[c].last_run.wires = config.max_retries + 1
        /\ config.max_retries >= 2
        /\ hist[c].last_run.first_err # hist[c].last_run.last_attempt_err
        /\ hist[c].last_run.err = hist[c].last_run.last_attempt_err
        /\ hist[c].last_run.err.kind = "NetworkError"


RECURSIVE Doubled(_)
\* the n-th term, n >= 1, of the sequence that starts at retry_delay_ms and
\* doubles at each step
Doubled(n) == IF n = 1 THEN config.retry_delay_ms ELSE 2 * Doubled(n - 1)

\* C24 (SpecAudit): in a translate_with_model run attempt 0 is sent without
\* any sleep, and attempt n, 1 <= n <= max_retries, is sent after n sleeps
\* of retry_delay_ms, 2 * retry_delay_ms, ..., retry_delay_ms * 2^(n-1) ms;
\* each run starts again without a sleep.
C24_BackoffSchedule ==
    \A c \in Callers :
        /\ call[c].pc \in {"wire", "sleep"}
            => /\ call[c].attempt \in 0..config.max_retries
               /\ call[c].attempt = 0
                    => /\ call[c].pc = "wire"
                       /\ call[c].delay = 0
                       /\ hist[c].run_delays = <<>>
               /\ call[c].attempt >= 1
                    => call[c].delay = Doubled(call[c].attempt)
        /\ call[c].pc = "wire"
            => /\ hist[c].run_wires = call[c].attempt + 1
               /\ hist[c].run_delays
                    = [n \in 1..call[c].attempt |-> Doubled(n)]
        /\ call[c].pc = "sleep"
            => /\ hist[c].run_wires = call[c].attempt
               /\ hist[c].run_delays
                    = [n \in 1..(call[c].attempt - 1) |-> Doubled(n)]

\* the fast model's last attempt is in flight after sleeps of 1000, 2000
\* and more ms, the slow model having gone through its own schedule before
C24_Witness ==
    \E c \in Callers :
        /\ call[c].pc = "wire"
        /\ call[c].lane = "fast"
        /\ call[c].attempt = config.max_retries
        /\ Len(hist[c].run_delays) >= 3
        /\ hist[c].run_delays[1] = 1000
        /\ hist[c].run_delays[2] = 2000
        /\ hist[c].run_delays[3] = 4000
        /\ hist[c].last_run.wires = config.max_retries + 1


\* the place of a model in the order translate() tries the models
PlaceOf(lane, idx) ==
    IF lane = "slow" THEN idx
    ELSE Len(get_models_by_lane(config, "slow")) + idx

\* C25 (SpecLanes): a translate() call has at most one wire call in flight, and
\* a wire call to a model other than the first one tried is sent only after
\* the retry loop of the model tried before it has ended in failure.
C25_SequentialAttempts ==
    \A c \in Callers :
        /\ hist[c].in_flight \in {0, 1}
        /\ (hist[c].in_flight = 1) = (call[c].pc = "wire")
        /\ call[c].pc \in {"wire", "sleep"}
            => LET p == PlaceOf(call[c].lane, call[c].idx)
               IN /\ p \in 1..Len(TryOrder)
                  /\ hist[c].tried = {TryOrder[i].id : i \in 1..(p - 1)}
                  /\ p = 1 => ~hist[c].last_run.ended
                  /\ p > 1
                        => /\ hist[c].last_run.ended
                           /\ ~hist[c].last_run.ok
                           /\ hist[c].last_run.model = TryOrder[p - 1].id
                           /\ hist[c].last_run.wires >= 1
                           /\ hist[c].wires
                                >= hist[c].last_run.wires + hist[c].run_wires

\* a fast-lane wire call is in flight alone, after the retry loop of the
\* slow-lane model had made its max_retries + 1 attempts and ended
C25_Witness ==
    \E c \in Callers :
        /\ call[c].pc = "wire"
        /\ call[c].lane = "fast"
        /\ hist[c].in_flight = 1
        /\ config.max_retries >= 1
        /\ hist[c].last_run.lane = "slow"
        /\ hist[c].last_run.wires = config.max_retries + 1
        /\ hist[c].wires = config.max_retries + 2


\* the order of the phases of a translate() call
PhaseRank(phase) ==
    CASE phase = "QuotaCheck" -> 1
      [] phase = "AdmissionWait" -> 2
      [] phase = "LaneSlow" -> 3
      [] phase = "LaneFast" -> 4
      [] phase \in {"Success", "Failure"} -> 5

\* C26 (SpecLanes): a translate() call enters its phases in the order QuotaCheck,
\* AdmissionWait, LaneSlow, LaneFast, terminal and enters none of them
\* twice: the precheck comes first and once, the permit is held only from
\* LaneSlow on, LaneFast comes only after the slow lane has failed, and a
\* call that passed the precheck fails only after LaneFast.
C26_PhaseOrder ==
    \A c \in Callers :
        LET ph == hist[c].phases
            In(p) == \E i \in 1..Len(ph) : ph[i] = p
        IN /\ \A i, j \in 1..Len(ph) :
                i < j => PhaseRank(ph[i]) < PhaseRank(ph[j])
           /\ call[c].pc \notin {"idle", "off"}
                => /\ Len(ph) >= 2
                   /\ ph[1] = "QuotaCheck"
           /\ call[c].pc = "acquire" => ph = <<"QuotaCheck", "AdmissionWait">>
           /\ call[c].permit => (In("AdmissionWait") /\ In("LaneSlow"))
           /\ In("LaneSlow") => In("AdmissionWait")
           /\ In("LaneFast") => (In("LaneSlow") /\ hist[c].slow_err # None)
           /\ call[c].pc \in {"wire", "sleep"}
                => In(IF call[c].lane = "slow" THEN "LaneSlow" ELSE "LaneFast")
           /\ (call[c].pc = "done")
                = (In("Success") \/ In("Failure"))
           /\ In("Success") => call[c].result.ok
           /\ In("Failure")
                => /\ ~call[c].result.ok
                   /\ In("LaneFast") \/ ph = <<"QuotaCheck", "Failure">>

\* a call has gone through every phase: its slow lane failed and its fast
\* lane answered
C26_Witness ==
    \E c \in Callers :
        hist[c].phases = <<"QuotaCheck", "AdmissionWait", "LaneSlow",
                           "LaneFast", "Success">>


\* the most wire calls a translate() call can issue
WireBound == Len(TryOrder) * (config.max_retries + 1)

\* C27 (SpecLive): a translate() call that has passed its precheck returns
\* in the end, and it never issues more than (enabled slow models + enabled
\* fast models) * (max_retries + 1) wire calls.
C27_Termination ==
    /\ [](\A c \in Callers : hist[c].wires <= WireBound)
    /\ \A c \in Callers :
            (call[c].pc \notin {"off", "idle", "done"}) ~> (call[c].pc = "done")

\* a call has returned a failure after the most wire calls it can issue,
\* while the other caller is at the semaphore
C27_Witness ==
    \E c, d \in Callers :
        /\ call[c].pc = "done"
        /\ ~call[c].result.ok
        /\ hist[c].wires = WireBound
        /\ WireBound >= 4
        /\ call[d].pc = "acquire"


\* the bodies of Bodies that hold "quota" or "limit"
MarkedBodies == {"quota", "daily limit reached"}

\* C28 (SpecWire): send_request classifies every response, in this order:
\* no response -> NetworkError; 2xx with a translation -> Ok with the
\* reported tokens and the model's id; 2xx without one or with an unparsable
\* body -> InvalidResponseError; 429 -> RateLimitError without retry_after,
\* whatever the body; another status with "quota" or "limit" in the body ->
\* QuotaExceededError; any other status -> ApiError with status and body.
C28_TransportClassification ==
    probe.pc = "done" =>
        LET i == probe.input
            o == probe.output
            twoxx == i.status \in 200..299
        IN /\ o.kind \in {"Ok", "NetworkError", "InvalidResponseError",
                          "RateLimitError", "QuotaExceededError", "ApiError"}
           /\ ~i.transport => o = Err("NetworkError", "", 0)
           /\ (i.transport /\ twoxx /\ i.json /\ i.content)
                => o = Ok(i.total_tokens, probe.model.id)
           /\ (i.transport /\ twoxx /\ ~(i.json /\ i.content))
                => (o.kind = "InvalidResponseError" /\ ~o.ok)
           /\ (i.transport /\ i.status = 429)
                => o = Err("RateLimitError", "", 0)
           /\ (i.transport /\ ~twoxx /\ i.status # 429
                    /\ i.body \in MarkedBodies)
                => o = QuotaExceededError
           /\ (i.transport /\ ~twoxx /\ i.status # 429
                    /\ i.body \notin MarkedBodies)
                => o = Err("ApiError", i.body, i.status)

\* a 429 response whose body holds "limit" was classified RateLimitError
C28_Witness ==
    /\ probe.pc = "done"
    /\ probe.input.status = 429
    /\ probe.input.body = "daily limit reached"
    /\ probe.output.kind = "RateLimitError"


\* C29 (SpecLow), as claimed: a tracker call made after the UTC date has
\* changed reports used_today as 0, whichever call it is: can_use and
\* use_tokens evaluate a used_today of 0, get_stats returns a used_today of
\* 0, remaining() returns daily_limit, is_low() answers as for nothing used.
C29_RolloverOnEveryTouch ==
    \A q \in Clients \cap observed :
        (client[q].stale /\ client[q].op # "none")
            => /\ client[q].used_eval = 0
               /\ client[q].op = "get_stats" => client[q].answer = 0
               /\ client[q].op = "remaining"
                    => client[q].answer = usage.daily_limit
               /\ client[q].op = "is_low"
                    => client[q].ok = is_low([usage EXCEPT !.used_today = 0])


\* C30 (SpecMarker), as claimed: a call that failed has left current_model
\* and used_today as it found them, and a call that succeeded has set
\* current_model to the model_used of its result.
C30_MarkerOnlyOnSuccess ==
    \A c \in Callers :
        /\ (call[c].pc = "done" /\ ~call[c].result.ok)
                => /\ current_model = hist[c].model_before
                   /\ usage.used_today = hist[c].used_before
        /\ (call[c].pc = "done" /\ call[c].result.ok)
                => current_model = call[c].result.model_used

\* C30 (SpecMarker), amended: a call that failed has left current_model as
\* it found it and has added nothing to used_today: used_today is as the
\* call found it, or 0 when the call's precheck ran on a new UTC day; a call
\* that succeeded has set current_model to the model_used of its result,
\* and not before its bookkeeping was over.
C30_MarkerWrittenOnSuccess ==
    \A c \in Callers :
        /\ call[c].pc \in {"acquire", "wire", "sleep", "use_tokens_wait",
                            "use_tokens_add", "use_tokens_log", "set_model"}
                => current_model = hist[c].model_before
        /\ (call[c].pc = "done" /\ ~call[c].result.ok)
                => /\ current_model = hist[c].model_before
                   /\ usage.used_today
                        = (IF hist[c].rolled THEN 0 ELSE hist[c].used_before)
        /\ (call[c].pc = "done" /\ call[c].result.ok)
                => current_model = call[c].result.model_used

\* on a new day a call failed in both lanes: the marker still names the
\* fast model an earlier call set, and the tokens used the day before are
\* gone from used_today
C30_Witness ==
    \E c \in Callers :
        /\ call[c].pc = "done"
        /\ call[c].result = AllFailed("slow")
        /\ hist[c].rolled
        /\ hist[c].used_before > 0
        /\ usage.used_today = 0
        /\ hist[c].model_before = 2
        /\ current_model = 2


\* the positions of a translate() call past line 69 and before its return
Admitted == {"wire", "sleep", "use_tokens_wait", "use_tokens_add",
             "use_tokens_log", "set_model"}

\* C31 (SpecHold): a call holds its permit at every position from admission
\* to its return (wire calls of either lane, backoff sleeps, bookkeeping)
\* and at no other; so at most max_concurrent calls are past admission, and
\* while max_concurrent calls are, a caller at the semaphore cannot proceed.
C31_PermitHeldToReturn ==
    /\ \A c \in Callers : call[c].pc \in Admitted <=> call[c].permit
    /\ Cardinality({c \in Callers : call[c].pc \in Admitted})
            <= config.max_concurrent
    /\ \A c \in Callers :
            (/\ call[c].pc = "acquire"
             /\ Cardinality({d \in Callers : call[d].pc \in Admitted})
                    = config.max_concurrent)
                => ~ENABLED translate_acquire(c)

\* two permits: one call sleeps before a retry, one does the bookkeeping of
\* a fast-lane success, and a third caller waits at the semaphore
C31_Witness ==
    /\ config.max_concurrent = 2
    /\ \E a, b, w \in Callers :
            /\ call[a].pc = "sleep" /\ call[a].permit
            /\ call[b].pc = "use_tokens_log" /\ call[b].lane = "fast"
            /\ call[b].permit
            /\ call[w].pc = "acquire" /\ ~call[w].permit
            /\ ~ENABLED translate_acquire(w)


\* C32 (SpecFront): when a front end (Markdown segments, ePub texts, HTTP
\* text_list) has returned after translate() failed for one of its texts,
\* every text that needs translating was handed to translate(), whatever
\* failed before it, and every text whose translate() call failed was
\* pushed unchanged.
C32_FrontEndsIndependent ==
    (front.pc = "done" /\ front.failed # {}) =>
        /\ \A k \in 1..Len(front.items) :
                (front.op # "epub" \/ front.items[k] # 0)
                    => k \in front.submitted
        /\ Len(front.out) = Len(front.items)
        /\ \A k \in front.failed :
                front.out[k] = Pushed(front.items[k], FALSE)


\* the errors translate() hands to its caller
CallerErrors == {QuotaExceededError, NoModels("slow"), AllFailed("slow")}

\* C33 (SpecLanes): a translate() call that fails returns QuotaExceededError,
\* and then from the precheck, before any wire call, or the ConfigError of
\* the slow lane (no model, or all models failed); the error of a wire call
\* (ApiError, RateLimitError, NetworkError, InvalidResponseError, the
\* upstream's QuotaExceededError) is never what the caller gets.
C33_ErrorsReturned ==
    \A c \in Callers \cap observed :
        (call[c].pc = "done" /\ ~call[c].result.ok)
            => /\ call[c].result \in CallerErrors
               /\ call[c].result = QuotaExceededError
                    <=> hist[c].phases = <<"QuotaCheck", "Failure">>
               /\ call[c].result = QuotaExceededError => hist[c].wires = 0
               /\ call[c].result.kind \notin
                    {"ApiError", "RateLimitError", "NetworkError",
                     "InvalidResponseError"}

\* a call failed in both lanes after the upstream had answered a wire call
\* with QuotaExceededError: the caller gets the slow lane's ConfigError
C33_Witness ==
    \E c \in Callers \cap observed :
        /\ call[c].pc = "done"
        /\ call[c].result = AllFailed("slow")
        /\ hist[c].quota_seen
        /\ hist[c].wires >= 2
        /\ hist[c].fast_err = AllFailed("fast")


\* a text whose estimate fits the budget left passes the precheck, whatever
\* the other calls are doing
PrecheckPasses ==
    \A c \in Callers, len \in TextLens :
        (/\ call[c].pc \in {"idle", "done"}
         /\ RwLock_write_free(usage_writers)
         /\ estimate_tokens(len)
                <= remaining(reset_if_needed(usage, now)))
            => ENABLED (translate_precheck(c, len) /\ call'[c].pc = "acquire")

\* used_today grows only where a use_tokens call books its tokens, and
\* otherwise changes only by going to 0 in a reset() or a day rollover
UsedTodayChanges ==
    usage'.used_today # usage.used_today =>
        \/ \E c \in Callers :
                /\ call[c].pc = "use_tokens_add"
                /\ call'[c].pc = "use_tokens_log"
                /\ usage'.used_today
                        = usage.used_today + call[c].trans_result.tokens_used
        \/ /\ usage'.used_today = 0
           /\ usage'.last_reset = now
           /\ \/ date_naive(now) # date_naive(usage.last_reset)
              \/ \E q \in Clients : client'[q].op = "reset"

\* the precheck of a call leaves used_today as it is, or at 0 on a new day
PrecheckBooksNothing ==
    \A c \in Callers :
        (call[c].pc \in {"idle", "done"} /\ call'[c] # call[c])
            => usage'.used_today
                    = reset_if_needed(usage, now).used_today

\* C34 (SpecReserve): the precheck reserves nothing: used_today changes only
\* through the tokens a use_tokens call books after a success, reset() or a
\* day rollover, and between resets it never decreases; so every call whose
\* estimate fits the budget left passes the precheck, however many calls
\* have passed it before and are still in progress.
C34_PrecheckNotAReservation ==
    /\ []PrecheckPasses
    /\ [][UsedTodayChanges /\ PrecheckBooksNothing]_vars

\* one token is left and both callers, each with an estimate of one token,
\* have passed the precheck: one waits for the permit, the other is about to
\* book the tokens of its success
C34_Witness ==
    /\ usage.daily_limit = 1
    /\ usage.used_today = 0
    /\ estimate_tokens(MaxTextLen) = 1
    /\ \E a, b \in Callers :
            /\ call[a].pc = "acquire"
            /\ call[b].pc = "use_tokens_wait"
            /\ call[b].trans_result.tokens_used >= 1


\* a caller holds the quota lock's write guard only between the check and
\* the addition of use_tokens: never while it waits for a permit, has a wire
\* call in flight or sleeps before a retry
NoLockWhileWaiting ==
    \A c \in Callers :
        c \in usage_writers
            => /\ call[c].pc = "use_tokens_add"
               /\ call[c].permit

\* C35 (SpecFree): no call waits for a permit, has a wire call in flight or
\* sleeps while it holds the quota lock; and when every wire call and every
\* sleep completes, every caller waiting for a permit is admitted and every
\* call in progress returns, also with more callers than permits.
C35_DeadlockFree ==
    /\ []NoLockWhileWaiting
    /\ \A c \in HoldCallers :
            /\ (call[c].pc = "acquire") ~> call[c].permit
            /\ call[c].permit ~> (call[c].pc = "done")

\* one permit, three callers: one holds the quota lock's write guard and the
\* permit, the two others wait for the permit
C35_Witness ==
    /\ config.max_concurrent = 1
    /\ \E a, b, c \in HoldCallers :
            /\ a # b
            /\ call[a].pc = "acquire"
            /\ call[b].pc = "acquire"
            /\ c \in usage_writers
            /\ call[c].permit


\* the phase a call is in
PhaseNow(c) == hist[c].phases[Len(hist[c].phases)]

\* C36 (SpecLanes): a wire call goes to a configured model that is enabled
\* and of the lane the call is in: a slow model in phase LaneSlow, a fast
\* model in phase LaneFast; so no model tried and no model that produced a
\* result is disabled.
C36_WireOnlyToEnabledOfLane ==
    \A c \in Callers \cap observed :
        /\ call[c].pc = "wire" =>
                LET m == cur_model(config, call[c]) IN
                /\ m.id \in 1..Len(config.models)
                /\ config.models[m.id] = m
                /\ m.enabled
                /\ PhaseNow(c) = (IF m.lane = "slow" THEN "LaneSlow"
                                  ELSE "LaneFast")
        /\ \A id \in hist[c].tried :
                /\ id \in 1..Len(config.models)
                /\ config.models[id].enabled
        /\ (call[c].pc = "done" /\ call[c].result.ok)
                => /\ config.models[call[c].result.model_used].enabled
                   /\ PhaseNow(c) = "Success"

\* the first configured slow model is disabled: the retry of the slow lane
\* goes to the second one
C36_Witness ==
    \E c \in Callers \cap observed :
        /\ call[c].pc = "wire"
        /\ call[c].attempt = 1
        /\ PhaseNow(c) = "LaneSlow"
        /\ Len(config.models) = 2
        /\ config.models[1] = Model(1, "slow", FALSE)
        /\ cur_model(config, call[c]) = Model(2, "slow", TRUE)


\* current_model as AsyncTranslator::new leaves it: the id of the first
\* configured model, or the empty string (0) without models
InitialModel == IF Len(config.models) = 0 THEN 0 ELSE config.models[1].id

\* the ids of the configured models that are enabled
EnabledIds ==
    {config.models[i].id : i \in {j \in 1..Len(config.models) :
                                    config.models[j].enabled}}

\* current_model is written only by a call that returns a success, with
\* the model_used of that success; once it names an enabled model it
\* always does
CurrentModelWrites ==
    /\ current_model' # current_model =>
            \E c \in Callers :
                /\ call[c].pc = "set_model"
                /\ call'[c].pc = "done"
                /\ call'[c].result.ok
                /\ current_model' = call'[c].result.model_used
    /\ current_model \in EnabledIds => current_model' \in EnabledIds

\* C37 (SpecCurrent): in every interleaving of concurrent translate() calls
\* current_model is the value new() gave it or the model_used of a call
\* that succeeded; once a call has returned a success it is the id of a
\* configured, enabled model, and stays one.
C37_CurrentModelValues ==
    /\ [](current_model \in {InitialModel} \cup EnabledIds)
    /\ []((\E c \in Callers : call[c].pc = "done" /\ call[c].result.ok)
                => current_model \in EnabledIds)
    /\ [][CurrentModelWrites]_vars

\* the first configured model is disabled: one call has returned a success
\* from the second model, which current_model now names, while the other
\* call is about to write current_model
C37_Witness ==
    /\ Len(config.models) = 2
    /\ ~config.models[1].enabled
    /\ InitialModel = 1
    /\ current_model = 2
    /\ \E a, b \in Callers :
            /\ call[a].pc = "done" /\ call[a].result.ok
            /\ call[b].pc = "set_model"


\* the positions of the configured models with id, and of the enabled ones
PositionsOf(id) == {i \in 1..Len(config.models) : config.models[i].id = id}
EnabledPositions == {i \in 1..Len(config.models) : config.models[i].enabled}

\* C38 (SpecFind): get_model(id) / find_model(id) returns the configured
\* model at the lowest position among those with that id, enabled or not,
\* and none when no model has the id; get_available_models() returns the
\* enabled models, each once, in their configured order.
C38_FindAndAvailable ==
    probe.pc = "done" =>
        /\ probe.op = "get_model" =>
                IF PositionsOf(probe.input) = {}
                THEN probe.output = NoModel
                ELSE /\ probe.output.some
                     /\ \E i \in PositionsOf(probe.input) :
                            /\ \A j \in PositionsOf(probe.input) : i <= j
                            /\ probe.output.model = config.models[i]
        /\ probe.op = "get_available_models" =>
                /\ Len(probe.output) = Cardinality(EnabledPositions)
                /\ \A k \in 1..Len(probe.output) :
                        \E i \in EnabledPositions :
                            /\ Cardinality({j \in EnabledPositions : j <= i})
                                    = k
                            /\ probe.output[k] = config.models[i]

\* two models share id 1 and the first of them is disabled: get_model(1)
\* returns the disabled one
C38_Witness ==
    /\ probe.pc = "done"
    /\ probe.op = "get_model"
    /\ probe.input = 1
    /\ Len(config.models) = 2
    /\ config.models[1] = Model(1, "slow", FALSE)
    /\ config.models[2] = Model(1, "fast", TRUE)
    /\ probe.output = SomeModel(config.models[1])

====
